---- MODULE Spec2Model ----
(***************************************************************************)
(* A model of PyPML's ParkingMonitor (src/pypml/pypml.py): the parking    *)
(* database, the vehicle database, the per-step reconciliation, the        *)
(* capacity / subscription mutators and the free-places query.             *)
(*                                                                         *)
(* Python dictionaries are functions whose DOMAIN is the key set; Python   *)
(* lists and tuples are sequences; a stop record of TraCI is the pair      *)
(* <<stopping place, stop flags>> of the two fields the source reads; None *)
(* is the string "None" for identifiers and -1 for step numbers.  An       *)
(* operation that raises is recorded with status "raise"; what it had      *)
(* already written before raising stays written, as in Python.             *)
(***************************************************************************)
EXTENDS Integers, Sequences, FiniteSets, TLC

VARIABLES
    parking_db,      \* _parking_db: parking id -> parking record
    vehicles_db,     \* _vehicles_db: vehicle id -> vehicle record
    passengers_db,   \* _passengers_db: set of passenger ids
    subscribed,      \* vehicles with a live TraCI vehicle subscription
    ending_stops,    \* _traci_ending_stop_subscriptions (fetched last step)
    starting_stops,  \* _traci_starting_stop_subscriptions (fetched last step)
    only_parkings,   \* _options['subscriptions']['only_parkings']
    sumo,            \* the simulation: vehicles that departed / arrived so far
    routers_db,      \* _routers_db
    static_parking_travel_time,  \* _static_parking_travel_time
    blacklisted_edges_pairs,     \* _blacklisted_edges_pairs
    returned,        \* the object a query handed to its caller
    history,         \* what happened so far: route queries that failed, a build
    now,             \* number of step() calls made so far (simulation time)
    call             \* the last public call: operation, arguments, outcome

\* The variables, after the names in the last call: two calls are told
\* apart by their names before their values, which may be of different kinds.
vars == <<call.op, call.status, call.parking, call.vclass, call.vehicle,
          parking_db, vehicles_db, passengers_db, subscribed, ending_stops,
          starting_stops, only_parkings, sumo, routers_db,
          static_parking_travel_time, blacklisted_edges_pairs, returned, history, now, call>>

----------------------------------------------------------------------------
(* Bounds of the model.                                                    *)

MaxCap == 2          \* per-class capacities and reserved counts range over 0..MaxCap
MaxSteps == 2        \* number of step() calls explored
MaxOcc == 1          \* the oracle's occupancy counter ranges over 0..MaxOcc
QuerySteps == 1      \* number of step() calls before and between the queries of SpecQuery
MaxCost == 2         \* travel times of a route range over 1..MaxCost
MaxTime == 3         \* rerouter intervals end within 1..MaxTime seconds
MaxRules == 2        \* number of rules of generic_conf
TrackSteps == 4      \* number of step() calls of SpecTrack
ParkSteps == 5       \* number of step() calls of SpecPark

vclasses == {"car", "bus"}              \* _options['vclasses']
AllClasses == vclasses \cup {"truck"}    \* "truck" is a class outside vclasses
Vehicles == {"v1", "v2"}
ParkingIds == {"p1", "p2"}              \* ids a caller or the oracle may name
Persons == {"u1"}

None == "None"
NoStep == -1

EmptyDict == [k \in {} |-> 0]

RECURSIVE SumOver(_, _)
SumOver(f, keys) ==
    IF keys = {} THEN 0
    ELSE LET k == CHOOSE x \in keys : TRUE
         IN  f[k] + SumOver(f, keys \ {k})

\* sum(d.values()) of a dictionary of integers
SumValues(d) == SumOver(d, DOMAIN d)

----------------------------------------------------------------------------
(* Initialization: ParkingMonitor.__init__                                 *)

\* One entry of _parking_db as __init__ leaves it: the TraCI capacity and
\* occupancy, empty per-class occupancy and projections, and the per-class
\* capacity / subscriptions copied from specific_conf without validation
\* (EmptyDict when specific_conf does not name them).
NewParking(capacity, occupancy, time, conf_capacity, conf_subscriptions, unc) ==
    [ total_capacity         |-> capacity,
      total_occupancy        |-> occupancy,
      occupancy_series       |-> << <<occupancy, time>> >>,
      occupancy_by_class     |-> [c \in vclasses |-> {}],
      projections_by_class   |-> [c \in vclasses |-> {}],
      capacity_by_class      |-> conf_capacity,
      subscriptions_by_class |-> conf_subscriptions,
      uncertainty            |-> unc ]

DefaultUncertainty == [mu |-> 0, sigma |-> 0]

\* No object is in the hands of a caller.
NotReturned == [alias |-> <<>>, held |-> FALSE, value |-> None]

NoCall == [op |-> "init", parking |-> None, vclass |-> None, vehicle |-> None,
           arg |-> EmptyDict, flags |-> <<>>, status |-> "return", value |-> None]

----------------------------------------------------------------------------
(* Validation                                                              *)

\* _validate_parking_capacity: TRUE iff it raises for the parking record.
validate_parking_capacity(parking) ==
    \/ DOMAIN parking.capacity_by_class # vclasses
    \/ SumValues(parking.capacity_by_class) # parking.total_capacity

\* _validate_parking_subscriptions: TRUE iff it raises for the parking record.
\* The last loop reads capacity_by_class[key] for every key of the
\* subscriptions: a key missing there is a KeyError.
validate_parking_subscriptions(parking) ==
    \/ DOMAIN parking.capacity_by_class = {}
    \/ DOMAIN parking.subscriptions_by_class # vclasses
    \/ \E key \in DOMAIN parking.subscriptions_by_class :
          \/ key \notin DOMAIN parking.capacity_by_class
          \/ parking.subscriptions_by_class[key][1] > parking.capacity_by_class[key]

\* _validate_parking_occupancy: TRUE iff it raises for the parking record.
validate_parking_occupancy(parking) ==
    \/ DOMAIN parking.occupancy_by_class # vclasses
    \/ /\ DOMAIN parking.capacity_by_class # {}
       /\ \E v_class \in DOMAIN parking.occupancy_by_class :
             \/ v_class \notin DOMAIN parking.capacity_by_class
             \/ Cardinality(parking.occupancy_by_class[v_class])
                   > parking.capacity_by_class[v_class]
    \/ SumOver([c \in DOMAIN parking.occupancy_by_class |->
                    Cardinality(parking.occupancy_by_class[c])],
               DOMAIN parking.occupancy_by_class) # parking.total_occupancy

----------------------------------------------------------------------------
(* Capacity and subscription mutators.  Each operator gives the outcome of *)
(* one call on the database db: the database after the call, whether the   *)
(* call raised, and the returned value.                                    *)

Outcome(db, status, value) == [db |-> db, status |-> status, value |-> value]

\* set_parking_capacity_vclass: assign, then validate.
set_parking_capacity_vclass(db, parking, capacities) ==
    IF parking \in DOMAIN db
    THEN LET new == [db EXCEPT ![parking].capacity_by_class = capacities]
         IN  IF validate_parking_capacity(new[parking])
             THEN Outcome(new, "raise", None)
             ELSE Outcome(new, "return", None)
    ELSE Outcome(db, "raise", None)

\* set_parking_subscriptions: assign, then validate.
set_parking_subscriptions(db, parking, subscriptions) ==
    IF parking \in DOMAIN db
    THEN LET new == [db EXCEPT ![parking].subscriptions_by_class = subscriptions]
         IN  IF validate_parking_subscriptions(new[parking])
             THEN Outcome(new, "raise", None)
             ELSE Outcome(new, "return", None)
    ELSE Outcome(db, "raise", None)

\* subscribe_vehicle_to_parking without the fullness test
subscribe_vehicle_to_parking_unbounded(db, parking, vclass, vehicle) ==
    IF parking \in DOMAIN db
    THEN IF vclass \in DOMAIN db[parking].subscriptions_by_class
         THEN LET capacity == db[parking].subscriptions_by_class[vclass][1]
                  vehicles == db[parking].subscriptions_by_class[vclass][2]
              IN  IF vehicle \in vehicles
                  THEN Outcome(db, "return", FALSE)
                  ELSE Outcome([db EXCEPT ![parking].subscriptions_by_class[vclass] =
                                    <<capacity, vehicles \cup {vehicle}>>],
                               "return", TRUE)
         ELSE Outcome(db, "raise", None)
    ELSE Outcome(db, "raise", None)

\* subscribe_vehicle_to_parking with the fullness test off by one
\* (len(vehicles) <= _capacity).
subscribe_vehicle_to_parking_off_by_one(db, parking, vclass, vehicle) ==
    IF parking \in DOMAIN db
    THEN IF vclass \in DOMAIN db[parking].subscriptions_by_class
         THEN LET capacity == db[parking].subscriptions_by_class[vclass][1]
                  vehicles == db[parking].subscriptions_by_class[vclass][2]
              IN  IF vehicle \in vehicles
                  THEN Outcome(db, "return", FALSE)
                  ELSE IF Cardinality(vehicles) <= capacity
                  THEN Outcome([db EXCEPT ![parking].subscriptions_by_class[vclass] =
                                    <<capacity, vehicles \cup {vehicle}>>],
                               "return", TRUE)
                  ELSE Outcome(db, "return", FALSE)
         ELSE Outcome(db, "raise", None)
    ELSE Outcome(db, "raise", None)

\* subscribe_vehicle_to_parking
subscribe_vehicle_to_parking(db, parking, vclass, vehicle) ==
    IF parking \in DOMAIN db
    THEN IF vclass \in DOMAIN db[parking].subscriptions_by_class
         THEN LET capacity == db[parking].subscriptions_by_class[vclass][1]
                  vehicles == db[parking].subscriptions_by_class[vclass][2]
              IN  IF vehicle \in vehicles
                  THEN Outcome(db, "return", FALSE)
                  ELSE IF Cardinality(vehicles) < capacity
                  THEN Outcome([db EXCEPT ![parking].subscriptions_by_class[vclass] =
                                    <<capacity, vehicles \cup {vehicle}>>],
                               "return", TRUE)
                  ELSE Outcome(db, "return", FALSE)
         ELSE Outcome(db, "raise", None)
    ELSE Outcome(db, "raise", None)

\* remove_subscribed_vehicle emptying the whole reservation set
\* (vehicles.clear() for vehicles.remove(vehicle)).
remove_subscribed_vehicle_clear(db, parking, vclass, vehicle) ==
    IF parking \in DOMAIN db
    THEN IF vclass \in DOMAIN db[parking].subscriptions_by_class
         THEN LET capacity == db[parking].subscriptions_by_class[vclass][1]
                  vehicles == db[parking].subscriptions_by_class[vclass][2]
              IN  IF vehicle \in vehicles
                  THEN Outcome([db EXCEPT ![parking].subscriptions_by_class[vclass] =
                                    <<capacity, {}>>],
                               "return", TRUE)
                  ELSE Outcome(db, "return", FALSE)
         ELSE Outcome(db, "raise", None)
    ELSE Outcome(db, "raise", None)

\* remove_subscribed_vehicle answering False for a class that was never
\* declared, where the source raises.
remove_subscribed_vehicle_undeclared(db, parking, vclass, vehicle) ==
    IF parking \in DOMAIN db
    THEN IF vclass \in DOMAIN db[parking].subscriptions_by_class
         THEN LET capacity == db[parking].subscriptions_by_class[vclass][1]
                  vehicles == db[parking].subscriptions_by_class[vclass][2]
              IN  IF vehicle \in vehicles
                  THEN Outcome([db EXCEPT ![parking].subscriptions_by_class[vclass] =
                                    <<capacity, vehicles \ {vehicle}>>],
                               "return", TRUE)
                  ELSE Outcome(db, "return", FALSE)
         ELSE Outcome(db, "return", FALSE)
    ELSE Outcome(db, "raise", None)

\* remove_subscribed_vehicle
remove_subscribed_vehicle(db, parking, vclass, vehicle) ==
    IF parking \in DOMAIN db
    THEN IF vclass \in DOMAIN db[parking].subscriptions_by_class
         THEN LET capacity == db[parking].subscriptions_by_class[vclass][1]
                  vehicles == db[parking].subscriptions_by_class[vclass][2]
              IN  IF vehicle \in vehicles
                  THEN Outcome([db EXCEPT ![parking].subscriptions_by_class[vclass] =
                                    <<capacity, vehicles \ {vehicle}>>],
                               "return", TRUE)
                  ELSE Outcome(db, "return", FALSE)
         ELSE Outcome(db, "raise", None)
    ELSE Outcome(db, "raise", None)

----------------------------------------------------------------------------
(* The step: ParkingMonitor.step and the three phases it calls.            *)
(*                                                                         *)
(* A phase works on a record S of the monitor's state: pdb (_parking_db),  *)
(* vdb (_vehicles_db), pax (_passengers_db), sub (the TraCI vehicle        *)
(* subscriptions), ending / starting (the two stop lists), to_validate     *)
(* and raised.  Once S.raised is set nothing more is written: that is the  *)
(* exception leaving step().  The oracle's answers of the step are the     *)
(* record o.  S.phases lists the parts of the step entered so far,         *)
(* S.critical the vehicles logged as 'parked but not in the DB' and        *)
(* S.results the results of the vehicle subscriptions read in the step.    *)

ParkingAreaFlag == 128
BusStopFlag == 16
StoppedFlag == 1

\* is_parking_area(flags): (flags & 128) == 128
is_parking_area(flags) == (flags \div ParkingAreaFlag) % 2 = 1

\* current_stops: the stops of the list whose flags name a parking area
ParkingStops(stops) == SelectSeq(stops, LAMBDA stop : is_parking_area(stop[2]))

\* _new_stops / _old_stops: the stopping places of a list of stops
Places(stops) == {stops[i][1] : i \in 1..Len(stops)}

SeqToSet(list) == {list[i] : i \in 1..Len(list)}

Raise(S) == [S EXCEPT !.raised = TRUE]

\* A part of the step is entered
Phase(S, name) == [S EXCEPT !.phases = Append(@, name)]

\* _logger.critical('[%d] Vehicle %s is parked but not in the DB.')
Critical(S, vehicle) == [S EXCEPT !.critical = @ \cup {vehicle}]

\* projections_by_class[v_class].add(vehicle) in every area of `areas`; a
\* missing area or class is a KeyError (the adds to the areas that exist are
\* taken to come first in the set's iteration).
AddProjections(S, areas, v_class, vehicle) ==
    LET ok(a) == a \in DOMAIN S.pdb /\ v_class \in DOMAIN S.pdb[a].projections_by_class
        new == [S EXCEPT !.pdb = [a \in DOMAIN S.pdb |->
                   IF a \in areas /\ ok(a)
                   THEN [S.pdb[a] EXCEPT !.projections_by_class[v_class] = @ \cup {vehicle}]
                   ELSE S.pdb[a]]]
    IN  IF \A a \in areas : ok(a) THEN new ELSE Raise(new)

\* The projections of the areas a vehicle no longer stops at left in place
RemoveProjections_kept(S, areas, v_class, vehicle) == S

\* projections_by_class[v_class].remove(vehicle) in every area of `areas`; a
\* missing area, class or vehicle is a KeyError.
RemoveProjections(S, areas, v_class, vehicle) ==
    LET ok(a) == /\ a \in DOMAIN S.pdb
                 /\ v_class \in DOMAIN S.pdb[a].projections_by_class
                 /\ vehicle \in S.pdb[a].projections_by_class[v_class]
        new == [S EXCEPT !.pdb = [a \in DOMAIN S.pdb |->
                   IF a \in areas /\ ok(a)
                   THEN [S.pdb[a] EXCEPT !.projections_by_class[v_class] = @ \ {vehicle}]
                   ELSE S.pdb[a]]]
    IN  IF \A a \in areas : ok(a) THEN new ELSE Raise(new)

\* The departed vehicle registered whatever its stops
monitor_departed_vehicle_any(S, step, vehicle, o, only) ==
    LET v_class == o.vclass[vehicle]
        current_stops == ParkingStops(o.next_stops[vehicle])
        passengers == o.persons[vehicle]
        registered ==
            [S EXCEPT !.pax = @ \cup SeqToSet(passengers),
                      !.sub = @ \cup {vehicle},
                      !.vdb = [x \in DOMAIN S.vdb \cup {vehicle} |->
                          IF x = vehicle
                          THEN [id |-> vehicle, departure |-> step, edge |-> "",
                                stops |-> current_stops, history |-> <<>>,
                                vClass |-> v_class, passengers |-> passengers,
                                arrived |-> NoStep, final_stop_arrival |-> NoStep]
                          ELSE S.vdb[x]]]
    IN  IF only /\ v_class \in {"bus", "rail"} THEN S
        ELSE AddProjections(registered, Places(current_stops), v_class, vehicle)

\* _monitor_vehicles, the body of the loop over the departed vehicles
monitor_departed_vehicle(S, step, vehicle, o, only) ==
    LET v_class == o.vclass[vehicle]
        current_stops == ParkingStops(o.next_stops[vehicle])
        new_stops == Places(current_stops)
        passengers == o.persons[vehicle]
        registered ==
            [S EXCEPT !.pax = @ \cup SeqToSet(passengers),
                      !.sub = @ \cup {vehicle},
                      !.vdb = [x \in DOMAIN S.vdb \cup {vehicle} |->
                          IF x = vehicle
                          THEN [id |-> vehicle, departure |-> step, edge |-> "",
                                stops |-> current_stops, history |-> <<>>,
                                vClass |-> v_class, passengers |-> passengers,
                                arrived |-> NoStep, final_stop_arrival |-> NoStep]
                          ELSE S.vdb[x]]]
    IN  IF only /\ v_class \in {"bus", "rail"} THEN S
        ELSE IF only /\ current_stops = <<>> THEN S
        ELSE AddProjections(registered, new_stops, v_class, vehicle)

RECURSIVE monitor_departed(_, _, _, _, _)
monitor_departed(S, step, list, o, only) ==
    IF list = <<>> \/ S.raised THEN S
    ELSE monitor_departed(monitor_departed_vehicle(S, step, Head(list), o, only),
                          step, Tail(list), o, only)

\* _monitor_vehicles dropping the vehicles that arrived
monitor_vehicles_forget(S, step, o, only) ==
    LET D == monitor_departed(Phase(S, "departed"), step, o.departed, o, only)
    IN  IF D.raised THEN D
        ELSE [Phase(D, "arrived") EXCEPT !.vdb = [x \in DOMAIN D.vdb \ SeqToSet(o.arrived) |->
                 D.vdb[x]]]

\* _monitor_vehicles
monitor_vehicles(S, step, o, only) ==
    LET D == monitor_departed(Phase(S, "departed"), step, o.departed, o, only)
    IN  IF D.raised THEN D
        ELSE [Phase(D, "arrived") EXCEPT !.vdb = [x \in DOMAIN D.vdb |->
                 IF x \in SeqToSet(o.arrived)
                 THEN [D.vdb[x] EXCEPT !.arrived = step]
                 ELSE D.vdb[x]]]

\* _is_same_destinations comparing the stops instead of their ids
is_same_destinations_whole(a_stops, b_stops) == a_stops = b_stops

\* _is_same_destinations
is_same_destinations(a_stops, b_stops) ==
    /\ Len(a_stops) = Len(b_stops)
    /\ \A pos \in 1..Len(a_stops) : a_stops[pos][1] = b_stops[pos][1]

\* The update of a vehicle stamping every step that empties its stops
update_vehicle_restamp(S, step, data, only) ==
    LET vehicle == data[1]
        current_stops == ParkingStops(data[3])
        new_stops == Places(current_stops)
    IN  IF vehicle \notin DOMAIN S.vdb THEN Raise(S)
        ELSE
        LET U == [S EXCEPT !.vdb[vehicle].edge = data[2],
                           !.vdb[vehicle].passengers = data[4],
                           !.pax = @ \cup SeqToSet(data[4])]
            old == U.vdb[vehicle]
            old_stops == Places(old.stops)
            R == RemoveProjections(U, old_stops \ new_stops, old.vClass, vehicle)
            A == AddProjections(R, new_stops \ old_stops, old.vClass, vehicle)
            C == [A EXCEPT
                    !.vdb[vehicle].history = Append(@, old.stops),
                    !.vdb[vehicle].stops = current_stops,
                    !.vdb[vehicle].final_stop_arrival =
                        IF current_stops = <<>> THEN step ELSE @,
                    !.sub = IF only /\ current_stops = <<>> THEN @ \ {vehicle} ELSE @]
        IN  IF is_same_destinations(old.stops, current_stops) THEN U
            ELSE IF R.raised THEN R
            ELSE IF A.raised THEN A
            ELSE C

\* _update_vehicles_db, the body of the loop over the subscription results;
\* data = <<vehicle, road id, next stops, person id list>>
update_vehicle(S, step, data, only) ==
    LET vehicle == data[1]
        current_stops == ParkingStops(data[3])
        new_stops == Places(current_stops)
    IN  IF vehicle \notin DOMAIN S.vdb THEN Raise(S)
        ELSE
        LET U == [S EXCEPT !.vdb[vehicle].edge = data[2],
                           !.vdb[vehicle].passengers = data[4],
                           !.pax = @ \cup SeqToSet(data[4])]
            old == U.vdb[vehicle]
            old_stops == Places(old.stops)
            R == RemoveProjections(U, old_stops \ new_stops, old.vClass, vehicle)
            A == AddProjections(R, new_stops \ old_stops, old.vClass, vehicle)
            C == [A EXCEPT
                    !.vdb[vehicle].history = Append(@, old.stops),
                    !.vdb[vehicle].stops = current_stops,
                    !.vdb[vehicle].final_stop_arrival =
                        IF @ = NoStep /\ current_stops = <<>> THEN step ELSE @,
                    !.sub = IF only /\ current_stops = <<>> THEN @ \ {vehicle} ELSE @]
        IN  IF is_same_destinations(old.stops, current_stops) THEN U
            ELSE IF R.raised THEN R
            ELSE IF A.raised THEN A
            ELSE C

RECURSIVE update_vehicles(_, _, _, _)
update_vehicles(S, step, results, only) ==
    IF results = <<>> \/ S.raised THEN S
    ELSE update_vehicles(update_vehicle(S, step, Head(results), only),
                         step, Tail(results), only)

\* _update_vehicles_db
update_vehicles_db(S, step, results, only) ==
    update_vehicles(Phase(S, "stops"), step, results, only)

\* _check_occupancy
check_occupancy(S, step, o) ==
    [S EXCEPT !.pdb = [parking \in DOMAIN S.pdb |->
        IF S.pdb[parking].total_occupancy # o.occupancy[parking]
        THEN [S.pdb[parking] EXCEPT
                 !.occupancy_series = Append(@, <<o.occupancy[parking], step>>),
                 !.total_occupancy = o.occupancy[parking]]
        ELSE S.pdb[parking]]]

\* _get_parking_area_from_vehicle is defined on a vehicle of the database
\* whose history is empty (None) or ends with a non-empty list of stops:
\* _vehicles_db[vehicle] is a KeyError otherwise, history[-1][0] an IndexError.
parking_area_raises(vdb, vehicle) ==
    \/ vehicle \notin DOMAIN vdb
    \/ /\ vdb[vehicle].history # <<>>
       /\ vdb[vehicle].history[Len(vdb[vehicle].history)] = <<>>

\* _get_parking_area_from_vehicle: history[-1][0][2], or None
get_parking_area_from_vehicle(vdb, vehicle) ==
    IF vdb[vehicle].history # <<>>
    THEN vdb[vehicle].history[Len(vdb[vehicle].history)][1][1]
    ELSE None

\* The ending stop of a vehicle that is not in the set passed over
\* (discard for remove)
ending_stop_discard(S, vehicle) ==
    IF parking_area_raises(S.vdb, vehicle) THEN Raise(S)
    ELSE
    LET parking_area == get_parking_area_from_vehicle(S.vdb, vehicle)
        v_class == S.vdb[vehicle].vClass
    IN  IF parking_area \in DOMAIN S.pdb
        THEN IF v_class \in DOMAIN S.pdb[parking_area].occupancy_by_class
             THEN [S EXCEPT !.pdb[parking_area].occupancy_by_class[v_class] = @ \ {vehicle},
                            !.to_validate = @ \cup {parking_area}]
             ELSE Raise(S)
        ELSE S

\* The ending stops left unread
ending_stop_kept(S, vehicle) == S

\* _update_parking_db, the body of the loop over the ending stops
ending_stop(S, vehicle) ==
    IF parking_area_raises(S.vdb, vehicle) THEN Raise(S)
    ELSE
    LET parking_area == get_parking_area_from_vehicle(S.vdb, vehicle)
        v_class == S.vdb[vehicle].vClass
    IN  IF parking_area \in DOMAIN S.pdb
        THEN IF /\ v_class \in DOMAIN S.pdb[parking_area].occupancy_by_class
                /\ vehicle \in S.pdb[parking_area].occupancy_by_class[v_class]
             THEN [S EXCEPT !.pdb[parking_area].occupancy_by_class[v_class] = @ \ {vehicle},
                            !.to_validate = @ \cup {parking_area}]
             ELSE Raise(S)
        ELSE S

RECURSIVE ending_stops_loop(_, _)
ending_stops_loop(S, list) ==
    IF list = <<>> \/ S.raised THEN S
    ELSE ending_stops_loop(ending_stop(S, Head(list)), Tail(list))

\* The starting stop of a vehicle looked up without the test of line 554
starting_stop_unchecked(S, vehicle) ==
    IF parking_area_raises(S.vdb, vehicle) THEN Raise(S)
    ELSE
    LET parking_area == get_parking_area_from_vehicle(S.vdb, vehicle)
        v_class == S.vdb[vehicle].vClass
    IN  IF parking_area \in DOMAIN S.pdb
        THEN IF v_class \in DOMAIN S.pdb[parking_area].occupancy_by_class
             THEN [S EXCEPT !.pdb[parking_area].occupancy_by_class[v_class] = @ \cup {vehicle},
                            !.to_validate = @ \cup {parking_area}]
             ELSE Raise(S)
        ELSE S

\* _update_parking_db, the body of the loop over the starting stops
starting_stop(S, vehicle) ==
    IF vehicle \notin DOMAIN S.vdb THEN Raise(Critical(S, vehicle))
    ELSE IF parking_area_raises(S.vdb, vehicle) THEN Raise(S)
    ELSE
    LET parking_area == get_parking_area_from_vehicle(S.vdb, vehicle)
        v_class == S.vdb[vehicle].vClass
    IN  IF parking_area \in DOMAIN S.pdb
        THEN IF v_class \in DOMAIN S.pdb[parking_area].occupancy_by_class
             THEN [S EXCEPT !.pdb[parking_area].occupancy_by_class[v_class] = @ \cup {vehicle},
                            !.to_validate = @ \cup {parking_area}]
             ELSE Raise(S)
        ELSE S

RECURSIVE starting_stops_loop(_, _)
starting_stops_loop(S, list) ==
    IF list = <<>> \/ S.raised THEN S
    ELSE starting_stops_loop(starting_stop(S, Head(list)), Tail(list))

\* _update_parking_db fetching the two lists before the ending stops are
\* processed, which then are those of this step
update_parking_db_fresh(S, step, o) ==
    LET K == check_occupancy(Phase([S EXCEPT !.to_validate = {}], "occupancy"), step, o)
        F == Phase([K EXCEPT !.starting = o.starting, !.ending = o.ending], "fetch")
        E == ending_stops_loop(Phase(F, "ending"), F.ending)
        G == starting_stops_loop(Phase(E, "starting"), E.starting)
        W == Phase(G, "validation")
    IN  IF E.raised THEN E
        ELSE IF G.raised THEN G
        ELSE IF \E pid \in W.to_validate : validate_parking_occupancy(W.pdb[pid])
        THEN Raise(W)
        ELSE W

\* _update_parking_db
update_parking_db(S, step, o) ==
    LET K == check_occupancy(Phase([S EXCEPT !.to_validate = {}], "occupancy"), step, o)
        E == ending_stops_loop(Phase(K, "ending"), K.ending)
        F == Phase([E EXCEPT !.starting = o.starting, !.ending = o.ending], "fetch")
        G == starting_stops_loop(Phase(F, "starting"), F.starting)
        W == Phase(G, "validation")
    IN  IF E.raised THEN E
        ELSE IF G.raised THEN G
        ELSE IF \E pid \in W.to_validate : validate_parking_occupancy(W.pdb[pid])
        THEN Raise(W)
        ELSE W

\* The order in which the results of the vehicle subscriptions are listed.
VehicleOrder == <<"v1", "v2">>

\* traci.vehicle.getAllSubscriptionResults: <<vehicle, road, stops, persons>>
\* for every subscribed vehicle still in the simulation.  A vehicle whose
\* plan the oracle did not change reports the stops the monitor holds.
subscription_results(S, o) ==
    LET listed == SelectSeq(VehicleOrder,
                            LAMBDA v : v \in S.sub /\ v \notin o.gone)
    IN  [i \in 1..Len(listed) |->
            LET v == listed[i]
            IN  <<v, "edge",
                  IF v \in DOMAIN o.changed THEN o.changed[v]
                  ELSE IF v \in SeqToSet(o.departed) THEN o.next_stops[v]
                  ELSE S.vdb[v].stops,
                  IF v \in o.alighted THEN <<>> ELSE S.vdb[v].passengers>>]

\* step calling _update_parking_db before _update_vehicles_db
step_parking_first(S, time, o, only) ==
    LET M == monitor_vehicles(S, time, o, only)
        P == update_parking_db(M, time, o)
        V == update_vehicles_db([P EXCEPT !.results = subscription_results(M, o)],
                                time, subscription_results(M, o), only)
    IN  IF M.raised THEN M
        ELSE IF P.raised THEN P
        ELSE V

\* step
step(S, time, o, only) ==
    LET M == monitor_vehicles(S, time, o, only)
        V == update_vehicles_db([M EXCEPT !.results = subscription_results(M, o)],
                                time, subscription_results(M, o), only)
        P == update_parking_db(V, time, o)
    IN  IF M.raised THEN M
        ELSE IF V.raised THEN V
        ELSE P

----------------------------------------------------------------------------
(* Rerouters: _load_parkings_and_routers and get_rerouter_iterator.        *)
(*                                                                         *)
(* A <rerouter> element of the SUMO file is [id, edges, intervals], an     *)
(* <interval> is [begin, end, parkings] with begin and end in seconds and  *)
(* parkings the list of <<id, visible>> of its <parkingAreaReroute>s.      *)

MillisPerSecond == 1000

\* _load_parkings_and_routers: the entry of _routers_db for one <rerouter>
load_rerouter(element) ==
    [id        |-> element.id,
     edges     |-> element.edges,
     intervals |-> [i \in 1..Len(element.intervals) |->
                      <<element.intervals[i].end * MillisPerSecond,
                        element.intervals[i].parkings>>]]

\* `not current` of Python: None and the empty list are false
Falsy(current) == current = None \/ current = <<>>

\* get_rerouter_iterator: the loop over value['intervals'], from position i
RECURSIVE rerouter_scan(_, _, _, _)
rerouter_scan(intervals, i, current, query_step) ==
    IF i > Len(intervals) THEN current
    ELSE LET end == intervals[i][1]
             parkings == intervals[i][2]
             first == IF Falsy(current) THEN parkings ELSE current
         IN  IF query_step <= end
             THEN rerouter_scan(intervals, i + 1, parkings, query_step)
             ELSE first

\* get_rerouter_iterator: what is yielded for one rerouter
rerouter_info(value, query_step) ==
    [id    |-> value.id,
     edges |-> value.edges,
     info  |-> rerouter_scan(value.intervals, 1, None, query_step)]

----------------------------------------------------------------------------
(* Travel times: compute_parking_travel_time and get_closest_parkings.     *)
(*                                                                         *)
(* parking['sumo'] is [id, edge, endPos], edge being lane.split('_')[0].   *)
(* The answer of simulation.findRoute for a pair of edges is RouteFails    *)
(* (a TraCIException), 0 (no edges, or a travel time of 0) or the travel   *)
(* time.  A build works on T = [static, blacklist, log]; log lists the     *)
(* route queries it issued, <<from_edge, to_edge, answer>>.                *)

RouteFails == -1

\* The order of the parkings in the SUMO file, which is that of _parking_db
ParkingOrder == <<"p1", "p2", "p3">>

ParkingOrderSet == {ParkingOrder[i] : i \in 1..Len(ParkingOrder)}

Rank(pid) == CHOOSE i \in 1..Len(ParkingOrder) : ParkingOrder[i] = pid

\* (cost, pid) tuples as Python orders them
TupleLess(a, b) == a[1] < b[1] \/ (a[1] = b[1] /\ Rank(a[2]) < Rank(b[2]))

RECURSIVE SortedInsert(_, _)
SortedInsert(list, item) ==
    IF list = <<>> THEN <<item>>
    ELSE IF TupleLess(item, Head(list)) THEN <<item>> \o list
    ELSE <<Head(list)>> \o SortedInsert(Tail(list), item)

\* distances.sort()
RECURSIVE Sorted(_)
Sorted(list) ==
    IF list = <<>> THEN <<>> ELSE SortedInsert(Sorted(Tail(list)), Head(list))

\* d[key].append(item) on a defaultdict(list)
AppendTo(d, key, item) ==
    (key :> (IF key \in DOMAIN d THEN Append(d[key], item) ELSE <<item>>)) @@ d

\* d[key] read on a defaultdict(list): a missing key is inserted with []
Touch(d, key) == d @@ (key :> <<>>)

travel_pair_requery(T, from, to, answers) ==
    LET from_edge == from[2]
        to_edge == to[2]
        answer == answers[<<from_edge, to_edge>>]
        B == [T EXCEPT !.blacklist = Touch(@, from_edge)]
        Q == [B EXCEPT !.log = Append(@, <<from_edge, to_edge, answer>>)]
    IN  IF from[1] = to[1] THEN T
        ELSE IF from_edge = to_edge /\ to[3] <= from[3] THEN T
        ELSE IF answer = RouteFails
             THEN [Q EXCEPT !.blacklist = AppendTo(@, from_edge, to_edge)]
        ELSE IF answer # 0
             THEN [Q EXCEPT !.static = AppendTo(@, from[1], <<answer, to[1]>>)]
        ELSE Q

\* compute_parking_travel_time, the body of the two nested loops;
\* from and to are (pid, edge, end_pos)
travel_pair(T, from, to, answers) ==
    LET from_edge == from[2]
        to_edge == to[2]
        answer == answers[<<from_edge, to_edge>>]
        B == [T EXCEPT !.blacklist = Touch(@, from_edge)]
        Q == [B EXCEPT !.log = Append(@, <<from_edge, to_edge, answer>>)]
    IN  IF from[1] = to[1] THEN T
        ELSE IF from_edge = to_edge /\ to[3] <= from[3] THEN T
        ELSE IF to_edge \in SeqToSet(B.blacklist[from_edge]) THEN B
        ELSE IF answer = RouteFails
             THEN [Q EXCEPT !.blacklist = AppendTo(@, from_edge, to_edge)]
        ELSE IF answer # 0
             THEN [Q EXCEPT !.static = AppendTo(@, from[1], <<answer, to[1]>>)]
        ELSE Q

\* The nested loops, as one loop over the pairs in order
RECURSIVE travel_pairs(_, _, _)
travel_pairs(T, pairs, answers) ==
    IF pairs = <<>> THEN T
    ELSE travel_pairs(travel_pair(T, Head(pairs)[1], Head(pairs)[2], answers),
                      Tail(pairs), answers)

travel_time_start_keep(static) == static

\* self._static_parking_travel_time = collections.defaultdict(list)
travel_time_start(static) == EmptyDict

\* compute_parking_travel_time
compute_parking_travel_time(db, static, blacklist, answers) ==
    LET ids == SelectSeq(ParkingOrder, LAMBDA pid : pid \in DOMAIN db)
        parkings == [i \in 1..Len(ids) |->
                        <<db[ids[i]].sumo.id, db[ids[i]].sumo.edge,
                          db[ids[i]].sumo.endPos>>]
        n == Len(parkings)
        pairs == [k \in 1..(n * n) |->
                    <<parkings[((k - 1) \div n) + 1], parkings[((k - 1) % n) + 1]>>]
        T == travel_pairs([static |-> travel_time_start(static),
                           blacklist |-> blacklist, log |-> <<>>],
                          pairs, answers)
    IN  [T EXCEPT !.static = [pid \in DOMAIN T.static |-> Sorted(T.static[pid])]]

\* The argument num left out (None)
NoNum == -1

\* get_closest_parkings
get_closest_parkings(static, parking, num) ==
    IF DOMAIN static = {} THEN Outcome(static, "raise", None)
    ELSE IF parking \in DOMAIN static
         THEN Outcome(static, "return",
                      IF num # NoNum /\ num # 0 /\ num < Len(static[parking])
                      THEN SubSeq(static[parking], 1, num)
                      ELSE static[parking])
         ELSE Outcome(static, "return", <<>>)

----------------------------------------------------------------------------
(* Free places                                                             *)

len_occupancy_summed(occupied, projected, holders) ==
    Cardinality(occupied) + Cardinality(projected) + Cardinality(holders)

\* len(vehicles) of get_free_places: the size of occupancy[key] after the
\* unions with the projected vehicles and the reservation holders.
len_occupancy(occupied, projected, holders) ==
    Cardinality(occupied \cup projected \cup holders)

\* get_free_places.  `draw` is the value of
\* round(random.normalvariate(mu, sigma)), read only with_uncertainty.
\* The dictionary reads of the source that hit a missing key raise KeyError:
\* occupancy[key] for a key of subscriptions_by_class, current_capacity[key]
\* and subscriptions[key] for a key of occupancy_by_class.
get_free_places(db, parking, with_uncertainty, vclass, with_projections, with_subscriptions, draw) ==
    IF parking \notin DOMAIN db THEN Outcome(db, "raise", None)
    ELSE
    LET p == db[parking]
        error == IF with_uncertainty THEN draw ELSE 0
        capacity_by_class == p.capacity_by_class
        occupied == p.occupancy_by_class
        projected == p.projections_by_class
        subs == p.subscriptions_by_class
        total_projections ==
            IF with_projections
            THEN SumOver([k \in DOMAIN projected |-> Cardinality(projected[k])],
                         DOMAIN projected)
            ELSE 0
        total_subscriptions ==
            IF with_subscriptions
            THEN SumOver([k \in DOMAIN subs |-> subs[k][1]], DOMAIN subs)
            ELSE 0
        \* subscriptions[key] = num - len(veh), filled only with_subscriptions
        subscriptions ==
            IF with_subscriptions
            THEN [k \in DOMAIN subs |-> subs[k][1] - Cardinality(subs[k][2])]
            ELSE EmptyDict
        occupancy ==
            [k \in DOMAIN occupied |->
                occupied[k]
                \cup (IF with_projections /\ k \in DOMAIN projected
                      THEN projected[k] ELSE {})
                \cup (IF with_subscriptions /\ k \in DOMAIN subs
                      THEN subs[k][2] ELSE {})]
        key_error ==
            \/ with_projections /\ DOMAIN projected \ DOMAIN occupied # {}
            \/ with_subscriptions /\ DOMAIN subs \ DOMAIN occupied # {}
            \/ /\ DOMAIN capacity_by_class # {}
               /\ \/ DOMAIN occupancy \ DOMAIN capacity_by_class # {}
                  \/ /\ with_subscriptions /\ DOMAIN subscriptions # {}
                     /\ DOMAIN occupancy \ DOMAIN subscriptions # {}
        current_capacity ==
            [k \in DOMAIN capacity_by_class |->
                IF k \in DOMAIN occupancy
                THEN capacity_by_class[k] + error
                     - len_occupancy(occupied[k],
                                     IF with_projections /\ k \in DOMAIN projected
                                     THEN projected[k] ELSE {},
                                     IF with_subscriptions /\ k \in DOMAIN subs
                                     THEN subs[k][2] ELSE {})
                     - (IF with_subscriptions /\ DOMAIN subscriptions # {}
                        THEN subscriptions[k] ELSE 0)
                ELSE capacity_by_class[k]]
    IN  IF key_error THEN Outcome(db, "raise", None)
        ELSE IF DOMAIN capacity_by_class # {}
        THEN IF vclass \in DOMAIN current_capacity
             THEN Outcome(db, "return", current_capacity[vclass])
             ELSE Outcome(db, "return", current_capacity)
        ELSE Outcome(db, "return",
                     p.total_capacity - p.total_occupancy - total_projections
                     - total_subscriptions + error)

----------------------------------------------------------------------------
(* Read-only queries.  A value of the model is a copy by construction; a   *)
(* query that hands out the object of the database itself is recorded by   *)
(* the alias of `returned`.                                                *)

get_parking_not_found(db, parking) ==
    IF parking \in DOMAIN db
    THEN Outcome(db, "return", db[parking])
    ELSE Outcome(db, "raise", None)

\* get_parking: the deep copy of the parking, None for an unknown id
get_parking(db, parking) ==
    IF parking \in DOMAIN db
    THEN Outcome(db, "return", db[parking])
    ELSE Outcome(db, "return", None)

\* get_vehicle: the deep copy of the vehicle, None for an unknown id
get_vehicle(vdb, vehicle) ==
    IF vehicle \in DOMAIN vdb THEN vdb[vehicle] ELSE None

\* get_parking_capacity_vclass
get_parking_capacity_vclass(db, parking) ==
    IF parking \in DOMAIN db
    THEN Outcome(db, "return", db[parking].capacity_by_class)
    ELSE Outcome(db, "raise", None)

\* get_parking_subscriptions
get_parking_subscriptions(db, parking) ==
    IF parking \in DOMAIN db
    THEN Outcome(db, "return", db[parking].subscriptions_by_class)
    ELSE Outcome(db, "raise", None)

\* get_parking_projections reads the key 'projection_by_class', which no
\* parking of __init__ has: a KeyError.
get_parking_projections(db, parking) ==
    IF parking \in DOMAIN db
    THEN IF "projection_by_class" \in DOMAIN db[parking]
         THEN Outcome(db, "return", db[parking].projection_by_class)
         ELSE Outcome(db, "raise", None)
    ELSE Outcome(db, "raise", None)

----------------------------------------------------------------------------
(* Inputs: the mappings a caller (or specific_conf) may hand over.         *)

Mappings(keysets, values) == UNION {[K -> values] : K \in keysets}

\* Key sets of the mappings handed over: none, exactly vclasses, and one with
\* a class of vclasses missing and a class outside vclasses present.
ConfKeySets == {{}, vclasses, {"car", "truck"}}

\* capacities: { vType: int }
CapacityInputs == Mappings(ConfKeySets, 0..MaxCap)

\* subscriptions: { vType: (reserved count, set of vehicle ids) }
SubscriptionInputs == Mappings(ConfKeySets, (0..MaxCap) \X (SUBSET Vehicles))

\* the subscriptions handed to the setter in SpecCfg: no holder yet
EmptySubscriptionInputs == Mappings(ConfKeySets, (0..MaxCap) \X {{}})

----------------------------------------------------------------------------
(* Actions: one public call each.                                          *)

Rest == <<vehicles_db, passengers_db, subscribed, ending_stops, starting_stops,
          only_parkings, sumo, routers_db, static_parking_travel_time,
          blacklisted_edges_pairs, returned, history, now>>

Called(op, parking, vclass, vehicle, arg, flags, out) ==
    [op |-> op, parking |-> parking, vclass |-> vclass, vehicle |-> vehicle,
     arg |-> arg, flags |-> flags, status |-> out.status, value |-> out.value]

SetParkingCapacityVclass ==
    \E parking \in ParkingIds, capacities \in CapacityInputs :
        LET out == set_parking_capacity_vclass(parking_db, parking, capacities)
        IN  /\ parking_db' = out.db
            /\ call' = Called("set_parking_capacity_vclass", parking, None, None,
                              IF parking \in DOMAIN parking_db THEN capacities
                              ELSE EmptyDict, <<>>, out)
            /\ UNCHANGED Rest

SetParkingSubscriptions ==
    \E parking \in ParkingIds, subscriptions \in EmptySubscriptionInputs :
        LET out == set_parking_subscriptions(parking_db, parking, subscriptions)
        IN  /\ parking_db' = out.db
            /\ call' = Called("set_parking_subscriptions", parking, None, None,
                              IF parking \in DOMAIN parking_db THEN subscriptions
                              ELSE EmptyDict, <<>>, out)
            /\ UNCHANGED Rest

SubscribeVehicleToParking ==
    \E parking \in ParkingIds, vclass \in AllClasses, vehicle \in Vehicles :
        LET out == subscribe_vehicle_to_parking(parking_db, parking, vclass, vehicle)
        IN  /\ parking_db' = out.db
            /\ call' = Called("subscribe_vehicle_to_parking", parking, vclass, vehicle,
                              EmptyDict, <<>>, out)
            /\ UNCHANGED Rest

RemoveSubscribedVehicle ==
    \E parking \in ParkingIds, vclass \in AllClasses, vehicle \in Vehicles :
        LET out == remove_subscribed_vehicle(parking_db, parking, vclass, vehicle)
        IN  /\ parking_db' = out.db
            /\ call' = Called("remove_subscribed_vehicle", parking, vclass, vehicle,
                              EmptyDict, <<>>, out)
            /\ UNCHANGED Rest

----------------------------------------------------------------------------
(* Specifications                                                          *)

\* The class attributes of the monitor before the first call.
InitMonitor ==
    /\ vehicles_db = EmptyDict
    /\ passengers_db = {}
    /\ subscribed = {}
    /\ ending_stops = <<>>
    /\ starting_stops = <<>>
    /\ sumo = [departed |-> {}, arrived |-> {}, parked |-> [v \in Vehicles |-> None]]
    /\ static_parking_travel_time = EmptyDict
    /\ blacklisted_edges_pairs = EmptyDict
    /\ returned = NotReturned
    /\ history = [failed_routes |-> {}, built |-> FALSE, repeated |-> FALSE]
    /\ now = 0
    /\ call = NoCall

InitRest ==
    /\ routers_db = EmptyDict
    /\ InitMonitor

\* The monitor right after __init__, with the parkings of `registered` in
\* the SUMO file and not blacklisted.
Constructed(registered, capacities, subscriptions) ==
    /\ parking_db \in [registered ->
          {NewParking(capacity, occupancy, 0, conf_capacity, conf_subscriptions,
                      DefaultUncertainty) :
              capacity \in 0..MaxCap, occupancy \in {0},
              conf_capacity \in capacities, conf_subscriptions \in subscriptions}]
    /\ only_parkings \in BOOLEAN
    /\ InitRest

\* SpecCfg: one registered parking ("p2" is unknown to the monitor), any
\* specific_conf, then any sequence of the two setters.
InitCfg ==
    /\ Constructed({"p1"}, CapacityInputs, EmptySubscriptionInputs)
    /\ only_parkings = FALSE

NextCfg == SetParkingCapacityVclass \/ SetParkingSubscriptions

SpecCfg == InitCfg /\ [][NextCfg]_vars

\* SpecSubs: one registered parking whose subscriptions come from
\* specific_conf, then any sequence of subscribe / unsubscribe calls.
InitSubs ==
    /\ Constructed({"p1"}, {EmptyDict}, SubscriptionInputs)
    /\ only_parkings = FALSE
    /\ parking_db["p1"].total_capacity = MaxCap

NextSubs == SubscribeVehicleToParking \/ RemoveSubscribedVehicle

SpecSubs == InitSubs /\ [][NextSubs]_vars

----------------------------------------------------------------------------
(* SpecFree: get_free_places on a parking as steps, setters and            *)
(* subscribe calls may have left it.                                       *)

\* The outcomes of round(random.normalvariate(mu, sigma)) explored.
Draws == {-1, 1}

\* traci.vehicle.getVehicleClass: the class the simulation gives a vehicle
getVehicleClass == [v \in Vehicles |-> IF v = "v1" THEN "car" ELSE "bus"]

\* occupancy_by_class / projections_by_class: a vehicle only under its class
PresentSets ==
    {f \in [vclasses -> SUBSET Vehicles] :
        \A c \in vclasses : \A v \in f[c] : getVehicleClass[v] = c}

FreeCapacities ==
    {[k \in vclasses |-> IF k = "car" THEN capacity ELSE MaxCap] :
        capacity \in 0..MaxCap}
    \cup {EmptyDict, [k \in {"car", "truck"} |-> 1]}

\* total_capacity: the sum of a capacity_by_class that passed validation
FreeTotalCapacity(cap) ==
    IF DOMAIN cap = vclasses THEN SumValues(cap) ELSE MaxCap

FreeSubscriptions ==
    {[k \in vclasses |-> IF k = "car" THEN <<num, veh>> ELSE <<1, {}>>] :
        num \in 0..MaxCap, veh \in SUBSET Vehicles}
    \cup {EmptyDict, [k \in {"car"} |-> <<1, {}>>], [k \in {"car", "truck"} |-> <<1, {}>>]}

NumPresent(f) == SumOver([c \in DOMAIN f |-> Cardinality(f[c])], DOMAIN f)

InitFree ==
    /\ \E cap \in FreeCapacities, subs \in FreeSubscriptions,
          occ \in PresentSets, proj \in PresentSets :
          parking_db = [p \in {"p1"} |->
              [NewParking(FreeTotalCapacity(cap), NumPresent(occ), 0, cap, subs,
                          DefaultUncertainty)
                  EXCEPT !.occupancy_by_class = occ,
                         !.projections_by_class = proj]]
    /\ only_parkings = FALSE
    /\ InitRest

GetFreePlaces ==
    \E parking \in ParkingIds, with_uncertainty \in BOOLEAN,
       vclass \in AllClasses \cup {None}, with_projections \in BOOLEAN,
       with_subscriptions \in BOOLEAN, draw \in Draws :
        LET out == get_free_places(parking_db, parking, with_uncertainty, vclass,
                                   with_projections, with_subscriptions, draw)
        IN  /\ with_uncertainty \/ draw = 1
            /\ parking \in DOMAIN parking_db
               \/ (~with_uncertainty /\ vclass = None /\ ~with_projections
                   /\ ~with_subscriptions)
            /\ parking_db' = out.db
            /\ call' = Called("get_free_places", parking, vclass, None, EmptyDict,
                              <<with_uncertainty, with_projections,
                                with_subscriptions, draw>>, out)
            /\ UNCHANGED Rest

NextFree == GetFreePlaces

SpecFree == InitFree /\ [][NextFree]_vars

----------------------------------------------------------------------------
(* SpecStep: two registered parkings and a simulation of two vehicles;     *)
(* every step the oracle reports at most one vehicle event, the occupancy  *)
(* counter of each parking and the two lists of starting / ending stops.   *)

ParkingAreaStop(place) == <<place, ParkingAreaFlag>>
BusStop == <<"bs1", BusStopFlag>>

\* The stop at a parking area the vehicle has reached
ReachedStop(place) == <<place, ParkingAreaFlag + StoppedFlag>>

\* traci.vehicle.getNextStops: the plans explored
StopLists ==
    {<<>>, <<ParkingAreaStop("p1")>>, <<ParkingAreaStop("p2")>>,
     <<ParkingAreaStop("p1"), ParkingAreaStop("p2")>>,
     <<BusStop, ParkingAreaStop("p1")>>, <<ReachedStop("p1")>>}

\* traci.vehicle.getPersonIDList at departure
getPersonIDList == [v \in Vehicles |-> IF v = "v1" THEN <<"u1">> ELSE <<>>]

StepEvent(kind, vehicle, stops) == [kind |-> kind, vehicle |-> vehicle, stops |-> stops]

\* What the simulation may do to one vehicle in a step: nothing, insert it,
\* remove it at the end of its route, change the stops of a subscribed
\* vehicle, or let the passengers of a subscribed vehicle leave it.
StepEvents ==
    {StepEvent("none", None, <<>>)}
    \cup {StepEvent("depart", v, stops) :
            v \in Vehicles \ sumo.departed, stops \in StopLists}
    \cup {StepEvent("arrive", v, <<>>) : v \in sumo.departed \ sumo.arrived}
    \cup {StepEvent("stops", v, stops) :
            v \in subscribed \ sumo.arrived, stops \in StopLists}
    \cup {StepEvent("alight", v, <<>>) :
            v \in {x \in subscribed \ sumo.arrived : vehicles_db[x].passengers # <<>>}}

\* The answers of TraCI during one step
Oracle(ev, occupancy, starting, ending) ==
    [departed   |-> IF ev.kind = "depart" THEN <<ev.vehicle>> ELSE <<>>,
     arrived    |-> IF ev.kind = "arrive" THEN <<ev.vehicle>> ELSE <<>>,
     vclass     |-> getVehicleClass,
     next_stops |-> [v \in Vehicles |-> ev.stops],
     persons    |-> getPersonIDList,
     changed    |-> IF ev.kind = "stops" THEN [v \in {ev.vehicle} |-> ev.stops]
                    ELSE EmptyDict,
     alighted   |-> IF ev.kind = "alight" THEN {ev.vehicle} ELSE {},
     gone       |-> sumo.arrived \cup (IF ev.kind = "arrive" THEN {ev.vehicle} ELSE {}),
     occupancy  |-> occupancy,
     starting   |-> starting,
     ending     |-> ending]

\* step(): one call of the TraCI step listener.  After a step that raised
\* the simulation is over.
Step ==
    /\ now < MaxSteps
    /\ ~(call.op = "step" /\ call.status = "raise")
    /\ \E ev \in StepEvents, occupancy \in [DOMAIN parking_db -> 0..MaxOcc] :
        LET after == [departed |-> sumo.departed \cup
                                      (IF ev.kind = "depart" THEN {ev.vehicle} ELSE {}),
                      arrived  |-> sumo.arrived \cup
                                      (IF ev.kind = "arrive" THEN {ev.vehicle} ELSE {}),
                      parked   |-> sumo.parked]
            stopping == {<<>>} \cup {<<v>> : v \in after.departed \ after.arrived}
        IN  \E starting \in stopping, ending \in stopping :
            \* the counters count vehicles that are in the simulation
            /\ SumValues(occupancy) <= Cardinality(after.departed \ after.arrived)
            /\ LET S == [pdb |-> parking_db, vdb |-> vehicles_db, pax |-> passengers_db,
                         sub |-> subscribed, ending |-> ending_stops,
                         starting |-> starting_stops, to_validate |-> {},
                         raised |-> FALSE, phases |-> <<>>, critical |-> {},
                         results |-> <<>>]
                   T == step(S, now + 1, Oracle(ev, occupancy, starting, ending),
                             only_parkings)
               IN  /\ parking_db' = T.pdb
                   /\ vehicles_db' = T.vdb
                   /\ passengers_db' = T.pax
                   /\ subscribed' = T.sub
                   /\ ending_stops' = T.ending
                   /\ starting_stops' = T.starting
                   /\ sumo' = after
                   /\ now' = now + 1
                   /\ call' = [NoCall EXCEPT !.op = "step",
                                  !.arg = [critical |-> T.critical, results |-> T.results,
                                    event |-> ev],
                           !.flags = T.phases,
                                  !.status = IF T.raised THEN "raise" ELSE "return",
                                  !.value = IF T.raised THEN None ELSE TRUE]
                   /\ UNCHANGED <<only_parkings, routers_db, static_parking_travel_time,
                                   blacklisted_edges_pairs, returned, history>>

StepCapacities == {EmptyDict, [c \in vclasses |-> IF c = "car" THEN MaxCap - 1 ELSE 1]}

InitStep ==
    /\ Constructed(ParkingIds, StepCapacities, {EmptyDict})
    /\ \A p \in ParkingIds : parking_db[p].total_capacity = MaxCap
    /\ parking_db["p2"].capacity_by_class = EmptyDict

NextStep == Step

SpecStep == InitStep /\ [][NextStep]_vars

----------------------------------------------------------------------------
(* SpecTrack: one vehicle followed over several steps.  sumo.parked is the *)
(* parking the simulation holds the vehicle in: a vehicle starts a stop    *)
(* only when it is not parked and ends one only when it is, each at most   *)
(* once a step, and the counter of a parking counts the vehicles parked    *)
(* in it.  The stops getNextStops reports are any of StopLists.            *)

TrackVehicles == {"v1"}

\* What the simulation does about parking in a step
ParkingEvents ==
    {[kind |-> "none", vehicle |-> None, parking |-> None]}
    \cup {[kind |-> "start", vehicle |-> v, parking |-> p] :
            v \in {x \in TrackVehicles : sumo.parked[x] = None}, p \in ParkingIds}
    \cup {[kind |-> "end", vehicle |-> v, parking |-> sumo.parked[v]] :
            v \in {x \in TrackVehicles : sumo.parked[x] # None}}

\* step() in a simulation that tells the truth about parking, up to the
\* given number of calls
Track(limit) ==
    /\ now < limit
    /\ ~(call.op = "step" /\ call.status = "raise")
    /\ \E ev \in {e \in StepEvents : e.vehicle \in TrackVehicles \cup {None}},
          pe \in ParkingEvents :
        LET after == [departed |-> sumo.departed \cup
                                      (IF ev.kind = "depart" THEN {ev.vehicle} ELSE {}),
                      arrived  |-> sumo.arrived \cup
                                      (IF ev.kind = "arrive" THEN {ev.vehicle} ELSE {}),
                      parked   |-> [v \in Vehicles |->
                                      IF v # pe.vehicle THEN sumo.parked[v]
                                      ELSE IF pe.kind = "start" THEN pe.parking
                                      ELSE None]]
            occupancy == [p \in DOMAIN parking_db |->
                             Cardinality({v \in Vehicles : after.parked[v] = p})]
            starting == IF pe.kind = "start" THEN <<pe.vehicle>> ELSE <<>>
            ending == IF pe.kind = "end" THEN <<pe.vehicle>> ELSE <<>>
            S == [pdb |-> parking_db, vdb |-> vehicles_db, pax |-> passengers_db,
                  sub |-> subscribed, ending |-> ending_stops,
                  starting |-> starting_stops, to_validate |-> {},
                  raised |-> FALSE, phases |-> <<>>, critical |-> {},
                  results |-> <<>>]
            T == step(S, now + 1, Oracle(ev, occupancy, starting, ending),
                      only_parkings)
        IN  \* a vehicle parks while it is in the simulation
            /\ pe.kind # "none" => pe.vehicle \in after.departed \ sumo.arrived
            /\ ev.kind = "arrive" => after.parked[ev.vehicle] = None
            /\ parking_db' = T.pdb
            /\ vehicles_db' = T.vdb
            /\ passengers_db' = T.pax
            /\ subscribed' = T.sub
            /\ ending_stops' = T.ending
            /\ starting_stops' = T.starting
            /\ sumo' = after
            /\ now' = now + 1
            /\ call' = [NoCall EXCEPT !.op = "step",
                           !.arg = [critical |-> T.critical, results |-> T.results,
                                    event |-> ev],
                           !.flags = T.phases,
                           !.status = IF T.raised THEN "raise" ELSE "return",
                           !.value = IF T.raised THEN None ELSE TRUE]
            /\ UNCHANGED <<only_parkings, routers_db, static_parking_travel_time,
                            blacklisted_edges_pairs, returned, history>>

TrackStep == Track(TrackSteps)

InitTrack ==
    /\ Constructed(ParkingIds, {EmptyDict}, {EmptyDict})
    /\ \A p \in ParkingIds : parking_db[p].total_capacity = MaxCap

NextTrack == TrackStep

SpecTrack == InitTrack /\ [][NextTrack]_vars

\* SpecPark: the same simulation followed long enough for the vehicle to
\* park, leave and park again.
ParkStep == Track(ParkSteps)

NextPark == ParkStep

SpecPark == InitTrack /\ [][NextPark]_vars

----------------------------------------------------------------------------
(* SpecRouter: one rerouter of the SUMO file with up to two intervals      *)
(* listed by increasing end time, asked about at any time.                 *)

\* The <parkingAreaReroute> lists of an interval
AreaLists == {<<>>, << <<"p1", TRUE>> >>, << <<"p2", FALSE>> >>}

Interval(begin, end, parkings) == [begin |-> begin, end |-> end, parkings |-> parkings]

\* The <interval> lists of a rerouter: consecutive windows from second 0
IntervalLists ==
    {<<>>}
    \cup {<<Interval(0, e1, a1)>> : e1 \in 1..MaxTime, a1 \in AreaLists}
    \cup {<<Interval(0, e1, a1), Interval(e1, e2, a2)>> :
            e1 \in 1..MaxTime, e2 \in 1..MaxTime, a1 \in AreaLists, a2 \in AreaLists}

RouterElements ==
    {[id |-> "r1", edges |-> <<"e1", "e2">>, intervals |-> l] :
        l \in {x \in IntervalLists : Len(x) < 2 \/ x[1].end < x[2].end}}

\* Query times: seconds, as documented, and the same instants in milliseconds
QueryTimes ==
    0..(MaxTime + 1) \cup {t * MillisPerSecond : t \in 0..(MaxTime + 1)}

PlainParkings ==
    [p \in ParkingIds |->
        NewParking(MaxCap, 0, 0, EmptyDict, EmptyDict, DefaultUncertainty)]

\* get_rerouter_iterator(step): the caller looks at the item yielded for one
\* rerouter; its 'edges' and 'info' are the lists of _routers_db themselves.
GetRerouterIterator ==
    \E query_step \in QueryTimes, rid \in DOMAIN routers_db :
        LET item == rerouter_info(routers_db[rid], query_step)
        IN  /\ call' = [NoCall EXCEPT !.op = "get_rerouter_iterator",
                           !.arg = <<rid, query_step>>, !.value = item]
            /\ returned' = [alias |-> <<"routers_db", rid>>, held |-> TRUE,
                            value |-> item]
            /\ UNCHANGED <<parking_db, vehicles_db, passengers_db, subscribed,
                           ending_stops, starting_stops, only_parkings, sumo,
                           routers_db, static_parking_travel_time,
                           blacklisted_edges_pairs, history, now>>

InitRouter ==
    /\ parking_db = PlainParkings
    /\ only_parkings = FALSE
    /\ routers_db \in {[r \in {"r1"} |-> load_rerouter(element)] :
                          element \in RouterElements}
    /\ InitMonitor

NextRouter == GetRerouterIterator

SpecRouter == InitRouter /\ [][NextRouter]_vars

----------------------------------------------------------------------------
(* SpecQuery: steps of the simulation, read-only queries in between, and   *)
(* a caller that changes the object a query handed to it.                  *)

\* The ids a caller may ask about: "p0" is no parking of the SUMO file.
QueryIds == ParkingIds \cup {"p0"}

Engine == <<parking_db, vehicles_db, passengers_db, subscribed, ending_stops,
            starting_stops, only_parkings, sumo, routers_db,
            static_parking_travel_time, blacklisted_edges_pairs, history, now>>

\* A query on a parking: its outcome goes to the caller as a fresh object.
QueryParking(op, parking, out) ==
    /\ call' = Called(op, parking, None, None, EmptyDict, <<>>, out)
    /\ returned' = [alias |-> <<>>,
                    held |-> out.status = "return" /\ parking \in DOMAIN parking_db,
                    value |-> out.value]
    /\ UNCHANGED Engine

GetParking ==
    \E parking \in QueryIds :
        QueryParking("get_parking", parking, get_parking(parking_db, parking))

\* get_parking_iterator: the caller looks at one of the yielded deep copies
GetParkingIterator ==
    \E parking \in DOMAIN parking_db :
        QueryParking("get_parking_iterator", parking,
                     Outcome(parking_db, "return", parking_db[parking]))

GetParkingCapacityVclass ==
    \E parking \in QueryIds :
        QueryParking("get_parking_capacity_vclass", parking,
                     get_parking_capacity_vclass(parking_db, parking))

GetParkingSubscriptions ==
    \E parking \in QueryIds :
        QueryParking("get_parking_subscriptions", parking,
                     get_parking_subscriptions(parking_db, parking))

GetParkingProjections ==
    \E parking \in QueryIds :
        QueryParking("get_parking_projections", parking,
                     get_parking_projections(parking_db, parking))

GetVehicle ==
    \E vehicle \in Vehicles :
        /\ call' = [NoCall EXCEPT !.op = "get_vehicle", !.vehicle = vehicle,
                       !.value = get_vehicle(vehicles_db, vehicle)]
        /\ returned' = [alias |-> <<>>, held |-> vehicle \in DOMAIN vehicles_db,
                        value |-> get_vehicle(vehicles_db, vehicle)]
        /\ UNCHANGED Engine

\* get_vehicle_iterator yields the dictionaries of _vehicles_db themselves;
\* the caller looks at one of them.
GetVehicleIterator ==
    \E vehicle \in DOMAIN vehicles_db :
        /\ call' = [NoCall EXCEPT !.op = "get_vehicle_iterator", !.vehicle = vehicle,
                       !.value = vehicles_db[vehicle]]
        /\ returned' = [alias |-> <<"vehicles_db", vehicle>>, held |-> TRUE,
                        value |-> vehicles_db[vehicle]]
        /\ UNCHANGED Engine

\* The caller changes the object it was handed: value['vClass'] = 'truck' on
\* a vehicle, value['edges'].clear() on a rerouter item, clear() on any other
\* dictionary.  What the object shares with the database changes there
\* too.
MutateReturned ==
    /\ returned.held
    /\ call' = [NoCall EXCEPT !.op = "mutate_returned"]
    /\ returned' = NotReturned
    /\ vehicles_db' =
          IF returned.alias # <<>> /\ returned.alias[1] = "vehicles_db"
          THEN [vehicles_db EXCEPT ![returned.alias[2]].vClass = "truck"]
          ELSE vehicles_db
    /\ routers_db' =
          IF returned.alias # <<>> /\ returned.alias[1] = "routers_db"
          THEN [routers_db EXCEPT ![returned.alias[2]].edges = <<>>]
          ELSE routers_db
    /\ UNCHANGED <<parking_db, passengers_db, subscribed, ending_stops,
                   starting_stops, only_parkings, sumo,
                   static_parking_travel_time, blacklisted_edges_pairs, history, now>>

InitQuery ==
    /\ parking_db = PlainParkings
    /\ only_parkings = FALSE
    /\ routers_db \in {[r \in {"r1"} |-> load_rerouter(element)] :
                          element \in {x \in RouterElements :
                                          x.intervals = <<Interval(0, MaxTime, <<>>)>>}}
    /\ InitMonitor

NextQuery ==
    \/ (now < QuerySteps /\ Step)
    \/ GetParking
    \/ GetParkingIterator
    \/ GetParkingCapacityVclass
    \/ GetParkingSubscriptions
    \/ GetParkingProjections
    \/ GetVehicle
    \/ GetVehicleIterator
    \/ GetRerouterIterator
    \/ MutateReturned

SpecQuery == InitQuery /\ [][NextQuery]_vars

----------------------------------------------------------------------------
(* SpecLookup: one registered parking, given per-class capacities by any   *)
(* sequence of setter calls, and looked up by registered and unregistered  *)
(* ids.                                                                    *)

InitLookup ==
    /\ Constructed({"p1"}, {EmptyDict}, {EmptyDict})
    /\ only_parkings = FALSE

NextLookup ==
    \/ SetParkingCapacityVclass
    \/ GetParking
    \/ GetParkingCapacityVclass

SpecLookup == InitLookup /\ [][NextLookup]_vars

----------------------------------------------------------------------------
(* SpecTravel: up to three parkings on two edges, any sequence of graph    *)
(* builds, each with its own answers of the routing oracle, and of         *)
(* closest-parking queries.                                                *)

Edges == {"eA", "eB"}

\* parking['sumo'] of the parkings of the SUMO file: "p1" and, further
\* down the same edge, "p2" lie on eA, "p3" lies on eB.
SumoFiles ==
    {[pid \in ParkingOrderSet |->
         [id |-> pid,
          edge |-> IF pid = "p3" THEN "eB" ELSE "eA",
          endPos |-> IF pid = "p2" THEN 2 ELSE 1]]}

\* The pairs of edges a build can ask a route for: those of two parkings
EdgePairs(db) ==
    {<<db[from].sumo.edge, db[to].sumo.edge>> :
        <<from, to>> \in {pair \in (DOMAIN db) \X (DOMAIN db) : pair[1] # pair[2]}}

\* The answers of simulation.findRoute during one build
RouteAnswers(db) == [EdgePairs(db) -> {RouteFails} \cup 0..MaxCost]

\* The parking of __init__ with its 'sumo' attributes
WithSumo(parking, attrib) ==
    [k \in DOMAIN parking \cup {"sumo"} |-> IF k = "sumo" THEN attrib ELSE parking[k]]

\* The values of num: left out, or from 0 to the length of the longest list
NumInputs == {NoNum} \cup 0..(Len(ParkingOrder) - 1)

ComputeParkingTravelTime ==
    \E answers \in RouteAnswers(parking_db) :
        LET T == compute_parking_travel_time(parking_db, static_parking_travel_time,
                                             blacklisted_edges_pairs, answers)
            failed == {<<T.log[i][1], T.log[i][2]>> :
                          i \in {k \in 1..Len(T.log) : T.log[k][3] = RouteFails}}
        IN  /\ static_parking_travel_time' = T.static
            /\ blacklisted_edges_pairs' = T.blacklist
            /\ history' = [failed_routes |-> history.failed_routes \cup failed,
                           built |-> TRUE,
                           repeated |-> /\ call.op = "compute_parking_travel_time"
                                        /\ call.arg = answers]
            /\ call' = [NoCall EXCEPT !.op = "compute_parking_travel_time",
                           !.arg = answers, !.value = T.log]
            /\ UNCHANGED <<parking_db, vehicles_db, passengers_db, subscribed,
                           ending_stops, starting_stops, only_parkings, sumo,
                           routers_db, returned, now>>

GetClosestParkings ==
    \E parking \in ParkingOrderSet \cup {"p0"}, num \in NumInputs :
        LET out == get_closest_parkings(static_parking_travel_time, parking, num)
        IN  /\ call' = [NoCall EXCEPT !.op = "get_closest_parkings",
                           !.parking = parking, !.arg = <<num>>,
                           !.status = out.status, !.value = out.value]
            /\ UNCHANGED <<parking_db, vehicles_db, passengers_db, subscribed,
                           ending_stops, starting_stops, only_parkings, sumo,
                           routers_db, static_parking_travel_time,
                           blacklisted_edges_pairs, returned, history, now>>

InitTravel ==
    /\ \E file \in SumoFiles, registered \in {ParkingOrderSet, {"p1", "p3"}, {"p1"}} :
          parking_db = [pid \in registered |->
              WithSumo(NewParking(MaxCap, 0, 0, EmptyDict, EmptyDict,
                                  DefaultUncertainty), file[pid])]
    /\ only_parkings = FALSE
    /\ InitRest

NextTravel == ComputeParkingTravelTime \/ GetClosestParkings

SpecTravel == InitTravel /\ [][NextTravel]_vars

----------------------------------------------------------------------------
(* SpecInit: __init__ with generic_conf and specific_conf.                 *)
(*                                                                         *)
(* An expression of the options is a number [num], a string [name] or a    *)
(* list [oper, a, b] in prefix notation.                                   *)

Num(n) == [num |-> n]

Name(s) == [name |-> s]

List(oper, a, b) == [oper |-> oper, a |-> a, b |-> b]

IsList(expr) == "oper" \in DOMAIN expr

\* _get_operator, without '/' and '**'
get_operator(oper, x, y) ==
    CASE oper = "and" -> x /\ y
      [] oper = "or"  -> x \/ y
      [] oper = ">"   -> x > y
      [] oper = ">="  -> x >= y
      [] oper = "="   -> x = y
      [] oper = "<="  -> x <= y
      [] oper = "<"   -> x < y
      [] oper = "+"   -> x + y
      [] oper = "-"   -> x - y
      [] oper = "*"   -> x * y

\* if operand in environment: operand = environment[operand]
Lookup(operand, environment) ==
    IF "name" \in DOMAIN operand
    THEN (IF operand.name \in DOMAIN environment THEN environment[operand.name]
          ELSE operand.name)
    ELSE operand.num

\* _parse_generic_condition
RECURSIVE parse_generic_condition(_, _)
parse_generic_condition(condition, environment) ==
    LET operand_1 == IF IsList(condition.a)
                     THEN parse_generic_condition(condition.a, environment)
                     ELSE Lookup(condition.a, environment)
        operand_2 == IF IsList(condition.b)
                     THEN parse_generic_condition(condition.b, environment)
                     ELSE Lookup(condition.b, environment)
    IN  get_operator(condition.oper, operand_1, operand_2)

\* _eval_expression
RECURSIVE eval_expression(_, _)
eval_expression(expr, environment) ==
    IF ~IsList(expr) THEN Lookup(expr, environment)
    ELSE LET operand_1 == IF IsList(expr.a) THEN eval_expression(expr.a, environment)
                          ELSE Lookup(expr.a, environment)
             operand_2 == IF IsList(expr.b) THEN eval_expression(expr.b, environment)
                          ELSE Lookup(expr.b, environment)
         IN  get_operator(expr.oper, operand_1, operand_2)

\* parking['uncertainty'] = {'mu': _eval_expression(...), 'sigma': ...}
eval_uncertainty(value, parking) ==
    [mu |-> eval_expression(value.mu, parking),
     sigma |-> eval_expression(value.sigma, parking)]

\* One (key, value) of 'set_to'; P is the parking with the log of the
\* assignments of the generic rules, (rule, key, value assigned).
set_to(P, rule, item) ==
    LET parking == IF item.key = "uncertainty"
                   THEN [P.parking EXCEPT
                            !.uncertainty = eval_uncertainty(item.value, P.parking)]
                   ELSE (item.key :> item.value) @@ P.parking
    IN  [parking |-> parking,
         log |-> Append(P.log, [rule |-> rule, key |-> item.key,
                                value |-> parking[item.key]])]

RECURSIVE set_to_loop(_, _, _)
set_to_loop(P, rule, items) ==
    IF items = <<>> THEN P
    ELSE set_to_loop(set_to(P, rule, Head(items)), rule, Tail(items))

\* for gopt in options['generic_conf'], from rule number `rule` on
RECURSIVE generic_conf_loop(_, _, _)
generic_conf_loop(P, generic_conf, rule) ==
    IF rule > Len(generic_conf) THEN P
    ELSE generic_conf_loop(
             IF parse_generic_condition(generic_conf[rule].cond, P.parking)
             THEN set_to_loop(P, rule, generic_conf[rule].set_to)
             ELSE P,
             generic_conf, rule + 1)

\* Apply SPECIFIC VALUES
specific_values(P, pid, specific_conf) ==
    IF pid \notin DOMAIN specific_conf THEN P
    ELSE LET conf == specific_conf[pid]
             A == IF "capacity_by_class" \in DOMAIN conf
                  THEN [P.parking EXCEPT !.capacity_by_class = conf.capacity_by_class]
                  ELSE P.parking
             B == IF "subscriptions_by_class" \in DOMAIN conf
                  THEN [A EXCEPT !.subscriptions_by_class = conf.subscriptions_by_class]
                  ELSE A
             C == IF "uncertainty" \in DOMAIN conf
                  THEN [B EXCEPT !.uncertainty = eval_uncertainty(conf.uncertainty, B)]
                  ELSE B
         IN  [P EXCEPT !.parking = C]

init_parking_specific_first(pid, capacity, occupancy, time, options) ==
    generic_conf_loop(
        specific_values(
            [parking |-> NewParking(capacity, occupancy, time, EmptyDict, EmptyDict,
                                    DefaultUncertainty),
             log |-> <<>>],
            pid, options.specific_conf),
        options.generic_conf, 1)

\* __init__, the body of the loop over the parkings: the defaults, the
\* generic rules in order, then the specific values
init_parking(pid, capacity, occupancy, time, options) ==
    specific_values(
        generic_conf_loop(
            [parking |-> NewParking(capacity, occupancy, time, EmptyDict, EmptyDict,
                                    DefaultUncertainty),
             log |-> <<>>],
            options.generic_conf, 1),
        pid, options.specific_conf)

\* The conditions of the rules
Conditions ==
    {List(">", Name("total_capacity"), Num(1)),
     List(">=", Name("total_capacity"), Num(1)),
     List("and", List(">", Name("total_capacity"), Num(0)),
                 List("<", Name("total_capacity"), Num(MaxCap)))}

\* The values of 'uncertainty' in the options
UncertaintyInputs ==
    {[mu |-> Num(0), sigma |-> sigma] :
        sigma \in {Num(1), Name("total_capacity"),
                   List("*", Name("total_capacity"), Num(2))}}

\* The lists 'set_to' of the rules
SetToInputs ==
    {<<[key |-> "uncertainty", value |-> u]>> : u \in UncertaintyInputs}
    \cup {<<[key |-> "capacity_by_class", value |-> m]>> : m \in {[c \in {"car"} |-> 1]}}
    \cup {<<[key |-> "total_capacity", value |-> 0],
            [key |-> "uncertainty", value |-> u]>> : u \in UncertaintyInputs}
    \cup {<<[key |-> "total_occupancy", value |-> 1],
            [key |-> "uncertainty", value |-> [mu |-> Num(0), sigma |-> Num(1)]]>>}

Rules == [cond : Conditions, set_to : SetToInputs]

RECURSIVE SeqsUpTo(_, _)
SeqsUpTo(S, n) ==
    IF n = 0 THEN {<<>>}
    ELSE SeqsUpTo(S, n - 1)
         \cup {Append(s, x) : s \in {t \in SeqsUpTo(S, n - 1) : Len(t) = n - 1}, x \in S}

\* The keys of options['specific_conf'][pid] that __init__ reads
SpecificAttributes == {"capacity_by_class", "subscriptions_by_class", "uncertainty"}

\* options['specific_conf'][pid]: one of the three keys, or another attribute
SpecificInputs ==
    {EmptyDict,
     [k \in {"total_capacity"} |-> 0],
     [k \in {"capacity_by_class"} |-> [c \in {"bus"} |-> MaxCap]],
     [k \in {"subscriptions_by_class"} |-> [c \in {"bus"} |-> <<1, {}>>]],
     [k \in {"uncertainty"} |-> [mu |-> Num(1), sigma |-> Name("total_capacity")]]}

\* The options: the generic rules, and specific values for "p1" or for none
OptionInputs ==
    {[generic_conf |-> generic_conf, specific_conf |-> specific_conf] :
        generic_conf \in SeqsUpTo(Rules, MaxRules),
        specific_conf \in {EmptyDict} \cup
            {[pid \in {"p1"} |-> conf] : conf \in SpecificInputs \ {EmptyDict}}}

\* __init__: the parkings of the SUMO file with the capacity TraCI reports
Initialize ==
    /\ call.op = "new"
    /\ \E options \in OptionInputs, capacity \in [ParkingIds -> 1..MaxCap] :
          LET P == [pid \in ParkingIds |-> init_parking(pid, capacity[pid], 0, 0, options)]
          IN  /\ capacity["p2"] = 1
              /\ parking_db' = [pid \in ParkingIds |-> P[pid].parking]
              /\ call' = [NoCall EXCEPT !.arg = options,
                             !.value = [capacity |-> capacity,
                                        log |-> [pid \in ParkingIds |-> P[pid].log]]]
    /\ UNCHANGED <<vehicles_db, passengers_db, subscribed, ending_stops,
                   starting_stops, only_parkings, sumo, routers_db,
                   static_parking_travel_time, blacklisted_edges_pairs, returned,
                   history, now>>

\* The class attributes before __init__
InitInit ==
    /\ parking_db = EmptyDict
    /\ only_parkings = FALSE
    /\ routers_db = EmptyDict
    /\ vehicles_db = EmptyDict
    /\ passengers_db = {}
    /\ subscribed = {}
    /\ ending_stops = <<>>
    /\ starting_stops = <<>>
    /\ sumo = [departed |-> {}, arrived |-> {}, parked |-> [v \in Vehicles |-> None]]
    /\ static_parking_travel_time = EmptyDict
    /\ blacklisted_edges_pairs = EmptyDict
    /\ returned = NotReturned
    /\ history = [failed_routes |-> {}, built |-> FALSE, repeated |-> FALSE]
    /\ now = 0
    /\ call = [NoCall EXCEPT !.op = "new"]

NextInit == Initialize

SpecInit == InitInit /\ [][NextInit]_vars

----------------------------------------------------------------------------
(* Spec: the monitor as a whole, every public call in any order.           *)

Init ==
    /\ Constructed(ParkingIds, CapacityInputs, EmptySubscriptionInputs)
    /\ parking_db["p2"] = NewParking(MaxCap, 0, 0, EmptyDict, EmptyDict,
                                     DefaultUncertainty)

Next ==
    \/ Step
    \/ SetParkingCapacityVclass
    \/ SetParkingSubscriptions
    \/ SubscribeVehicleToParking
    \/ RemoveSubscribedVehicle
    \/ GetFreePlaces

Spec == Init /\ [][Next]_vars

----------------------------------------------------------------------------
(* Properties                                                              *)

\* C1: after every step() call that completes without raising, every
\* registered parking has the sizes of its occupancy_by_class sets summing to
\* its total_occupancy.
C1_OccupancySumMatchesTotal ==
    (call.op = "step" /\ call.status = "return") =>
        \A p \in DOMAIN parking_db :
            NumPresent(parking_db[p].occupancy_by_class) = parking_db[p].total_occupancy

IsSetter(c) ==
    c.op \in {"set_parking_capacity_vclass", "set_parking_subscriptions"}

\* The reservation entry (count, holders) of the class the call names, in db.
Entry(db, c) == db[c.parking].subscriptions_by_class[c.vclass]

\* The call names a registered parking and a class declared in its
\* subscriptions_by_class, in db.
Declared(db, c) ==
    /\ c.parking \in DOMAIN db
    /\ c.vclass \in DOMAIN db[c.parking].subscriptions_by_class

\* C2: a capacity-by-class or subscription-by-class setter call that fails
\* validation leaves capacity_by_class and subscriptions_by_class of every
\* parking as they were before the call.
C2_FailedSetterKeepsState ==
    [][ (IsSetter(call') /\ call'.status = "raise") =>
            \A p \in DOMAIN parking_db :
                /\ parking_db'[p].capacity_by_class = parking_db[p].capacity_by_class
                /\ parking_db'[p].subscriptions_by_class
                       = parking_db[p].subscriptions_by_class ]_vars

\* C3: after initialization and after any sequence of setter calls, every
\* parking with a non-empty subscriptions_by_class has, for each class, a
\* reserved count that does not exceed capacity_by_class[class].
C3_ReservedWithinCapacity ==
    \A p \in DOMAIN parking_db :
        LET subs == parking_db[p].subscriptions_by_class
            cap  == parking_db[p].capacity_by_class
        IN  DOMAIN subs # {} =>
                \A c \in DOMAIN subs : c \in DOMAIN cap /\ subs[c][1] <= cap[c]

\* C4: after initialization and after any sequence of capacity setter calls,
\* every parking whose capacity_by_class is non-empty has the key set
\* vclasses and values that sum to total_capacity.
C4_CapacityByClassValid ==
    \A p \in DOMAIN parking_db :
        LET cap == parking_db[p].capacity_by_class
        IN  DOMAIN cap # {} =>
                /\ DOMAIN cap = vclasses
                /\ SumValues(cap) = parking_db[p].total_capacity

\* C5: the subscription setter on a registered parking raises if
\* capacity_by_class is empty, or the key set of the new mapping differs from
\* vclasses, or some class's reserved count exceeds that class's capacity; in
\* every other case it returns and subscriptions_by_class is the new mapping.
C5_SubscriptionSetterOutcome ==
    [][ (call'.op = "set_parking_subscriptions" /\ call'.parking \in DOMAIN parking_db) =>
            LET cap == parking_db[call'.parking].capacity_by_class
                new == call'.arg
                bad == \/ DOMAIN cap = {}
                       \/ DOMAIN new # vclasses
                       \/ \E c \in DOMAIN new \cap DOMAIN cap : new[c][1] > cap[c]
            IN  IF bad THEN call'.status = "raise"
                ELSE /\ call'.status = "return"
                     /\ parking_db'[call'.parking].subscriptions_by_class = new ]_vars

C7_RemoveSubscribedVehicle ==
    [][ (call'.op = "remove_subscribed_vehicle" /\ Declared(parking_db, call')) =>
            LET num == Entry(parking_db, call')[1]
                veh == Entry(parking_db, call')[2]
            IN  IF call'.vehicle \notin veh
                THEN /\ call'.status = "return" /\ call'.value = FALSE
                     /\ parking_db' = parking_db
                ELSE /\ call'.status = "return" /\ call'.value = TRUE
                     /\ parking_db' = [parking_db EXCEPT
                            ![call'.parking].subscriptions_by_class[call'.vclass] =
                                <<num, veh \ {call'.vehicle}>>] ]_vars

\* C7 witness: a removal that returned True and left another holder in place.
C7_Witness ==
    /\ call.op = "remove_subscribed_vehicle"
    /\ Declared(parking_db, call)
    /\ call.status = "return" /\ call.value = TRUE
    /\ call.vehicle \notin Entry(parking_db, call)[2]
    /\ Entry(parking_db, call)[2] # {}

\* C8: subscribing or unsubscribing for a class that is not declared in the
\* parking's subscriptions_by_class, or for an unknown parking id, raises and
\* changes no parking.
C8_UndeclaredRaises ==
    [][ ( /\ call'.op \in {"subscribe_vehicle_to_parking", "remove_subscribed_vehicle"}
          /\ ~Declared(parking_db, call') ) =>
            /\ call'.status = "raise"
            /\ parking_db' = parking_db ]_vars

\* C8 witness: an unsubscribe call that raised on a registered parking whose
\* subscriptions_by_class declares other classes, but not the one named.
C8_Witness ==
    /\ call.op = "remove_subscribed_vehicle"
    /\ call.status = "raise"
    /\ call.parking \in DOMAIN parking_db
    /\ parking_db[call.parking].subscriptions_by_class # EmptyDict
    /\ call.vclass \notin DOMAIN parking_db[call.parking].subscriptions_by_class

\* The last call is get_free_places on a registered parking, without
\* uncertainty.  call.flags = <<with_uncertainty, with_projections,
\* with_subscriptions, draw>>.
FreePlacesAsked ==
    /\ call.op = "get_free_places"
    /\ call.parking \in DOMAIN parking_db
    /\ ~call.flags[1]

\* The members of class c in a per-class mapping of sets (none when the
\* mapping has no such class).
Members(by_class, c) == IF c \in DOMAIN by_class THEN by_class[c] ELSE {}

\* The occupancy view of class c for the last call: the occupied set,
\* with the projected set if projections are included and the reservation
\* holders if subscriptions are included.
View(c) ==
    LET p == parking_db[call.parking]
    IN  Members(p.occupancy_by_class, c)
        \cup (IF call.flags[2] THEN Members(p.projections_by_class, c) ELSE {})
        \cup (IF call.flags[3] /\ c \in DOMAIN p.subscriptions_by_class
              THEN p.subscriptions_by_class[c][2] ELSE {})

\* The reserved-but-unfilled slots of class c: reserved count minus holders.
Unfilled(c) ==
    LET subs == parking_db[call.parking].subscriptions_by_class
    IN  IF c \in DOMAIN subs THEN subs[c][1] - Cardinality(subs[c][2]) ELSE 0

\* The free places of class c as C9 states them.
FreeOfClass(c) ==
    parking_db[call.parking].capacity_by_class[c] - Cardinality(View(c))
    - (IF call.flags[3] THEN Unfilled(c) ELSE 0)

\* The per-class answer C9 describes for the last call.
AnswersByClass ==
    LET cap == parking_db[call.parking].capacity_by_class
    IN  /\ call.status = "return"
        /\ IF call.vclass \in DOMAIN cap
           THEN call.value = FreeOfClass(call.vclass)
           ELSE call.value = [c \in DOMAIN cap |-> FreeOfClass(c)]

\* The single integer C10 describes for the last call.
AnswersTotal ==
    LET p == parking_db[call.parking]
    IN  /\ call.status = "return"
        /\ call.value =
              p.total_capacity - p.total_occupancy
              - (IF call.flags[2] THEN NumPresent(p.projections_by_class) ELSE 0)
              - (IF call.flags[3]
                 THEN SumOver([c \in DOMAIN p.subscriptions_by_class |->
                                  p.subscriptions_by_class[c][1]],
                              DOMAIN p.subscriptions_by_class)
                 ELSE 0)

\* capacity_by_class and subscriptions_by_class of the parking are empty or
\* keyed by exactly vclasses, as a mapping that passed validation is.
KeyedByVclasses(p) ==
    /\ DOMAIN parking_db[p].capacity_by_class \in {{}, vclasses}
    /\ DOMAIN parking_db[p].subscriptions_by_class \in {{}, vclasses}

\* C9: for a parking with per-class capacities configured and uncertainty
\* not requested, get_free_places gives for each class capacity_by_class[class]
\* minus the size of the class's occupancy view minus, if subscriptions are
\* included, the reserved-but-unfilled slots; the single number when a
\* configured class is requested, the per-class mapping otherwise.
C9_FreePlacesByClass ==
    (FreePlacesAsked /\ DOMAIN parking_db[call.parking].capacity_by_class # {})
        => AnswersByClass

\* C9 on the parkings whose mappings are keyed by vclasses (what C9 comes to
\* once no unvalidated mapping is left in the database).
FreePlacesByClassOnValidated ==
    ( /\ FreePlacesAsked /\ KeyedByVclasses(call.parking)
      /\ DOMAIN parking_db[call.parking].capacity_by_class # {} )
        => AnswersByClass

\* C10: for a parking with empty capacity_by_class and uncertainty not
\* requested, get_free_places returns total_capacity - total_occupancy
\* - (number of projected vehicles, if projections are included)
\* - (sum of reserved counts, if subscriptions are included).
C10_FreePlacesTotal ==
    (FreePlacesAsked /\ DOMAIN parking_db[call.parking].capacity_by_class = {})
        => AnswersTotal

\* C10 on the parkings whose subscriptions are keyed by classes of vclasses.
FreePlacesTotalOnValidated ==
    ( /\ FreePlacesAsked
      /\ DOMAIN parking_db[call.parking].capacity_by_class = {}
      /\ DOMAIN parking_db[call.parking].subscriptions_by_class \subseteq vclasses )
        => AnswersTotal

\* The vehicle is in at least two of the occupied set, the projected set and
\* the reservation holders of class c of the parking asked about.
InSeveralSets(v, c) ==
    LET p == parking_db[call.parking]
        in_occupied == v \in Members(p.occupancy_by_class, c)
        in_projected == v \in Members(p.projections_by_class, c)
        in_holders == /\ c \in DOMAIN p.subscriptions_by_class
                      /\ v \in p.subscriptions_by_class[c][2]
    IN  \/ in_occupied /\ in_projected
        \/ in_occupied /\ in_holders
        \/ in_projected /\ in_holders

\* The vehicles the last call counts against class c, each one once.
CountedOnce(c) ==
    LET p == parking_db[call.parking]
    IN  {v \in Vehicles :
            \/ v \in Members(p.occupancy_by_class, c)
            \/ call.flags[2] /\ v \in Members(p.projections_by_class, c)
            \/ /\ call.flags[3] /\ c \in DOMAIN p.subscriptions_by_class
               /\ v \in p.subscriptions_by_class[c][2]}

\* The free places the last call gave for class c.
GivenFor(c) == IF call.vclass = c THEN call.value ELSE call.value[c]

\* The classes the last call answered for.
ClassesAnswered ==
    LET cap == parking_db[call.parking].capacity_by_class
    IN  IF call.vclass \in DOMAIN cap THEN {call.vclass} ELSE DOMAIN cap

\* C11: in a per-class answer of get_free_places, a vehicle that is in more
\* than one of the class's occupied set, projected set and reservation
\* holders is subtracted from the free places of the class exactly once, for
\* every combination of the projections and subscriptions flags.
C11_SubtractedOnce ==
    ( /\ call.op = "get_free_places" /\ call.status = "return"
      /\ call.parking \in DOMAIN parking_db
      /\ DOMAIN parking_db[call.parking].capacity_by_class # {} ) =>
        \A c \in ClassesAnswered :
            (\E v \in Vehicles : InSeveralSets(v, c)) =>
                GivenFor(c) =
                    parking_db[call.parking].capacity_by_class[c]
                    + (IF call.flags[1] THEN call.flags[4] ELSE 0)
                    - Cardinality(CountedOnce(c))
                    - (IF call.flags[3] THEN Unfilled(c) ELSE 0)

\* C11 witness: a per-class answer with projections and subscriptions
\* included, for a class that has one vehicle in all three sets.
C11_Witness ==
    /\ call.op = "get_free_places" /\ call.status = "return"
    /\ call.parking \in DOMAIN parking_db
    /\ call.flags[2] /\ call.flags[3]
    /\ call.vclass = "car"
    /\ "car" \in DOMAIN parking_db[call.parking].capacity_by_class
    /\ "car" \in DOMAIN parking_db[call.parking].subscriptions_by_class
    /\ \E v \in Vehicles :
          /\ v \in parking_db[call.parking].occupancy_by_class["car"]
          /\ v \in parking_db[call.parking].projections_by_class["car"]
          /\ v \in parking_db[call.parking].subscriptions_by_class["car"][2]

\* The end of an interval of _routers_db, in seconds
EndSeconds(interval) == interval[1] \div MillisPerSecond

\* C15: for each rerouter and every query time, get_rerouter_iterator reports
\* the parkings of the interval active at that time: for intervals listed by
\* increasing end time, the first interval whose end is not before the query
\* time.
C15_ActiveInterval ==
    call.op = "get_rerouter_iterator" =>
        LET intervals == routers_db[call.arg[1]].intervals
            query_step == call.arg[2]
            active == {k \in 1..Len(intervals) :
                          /\ query_step <= EndSeconds(intervals[k])
                          /\ \A j \in 1..(k - 1) : EndSeconds(intervals[j]) < query_step}
        IN  \A k \in active : call.value.info = intervals[k][2]

\* C12: no value handed out by a read-only query aliases the state of the
\* monitor: changing the returned value changes nothing a later query or
\* step observes.
C12_NoAliasing ==
    [][ call'.op = "mutate_returned" =>
           <<parking_db, vehicles_db, routers_db>>' =
           <<parking_db, vehicles_db, routers_db>> ]_vars

\* C13 as stated: looking up a parking by an id that is not registered fails
\* with an error; it does not return an 'absent' value.
C13_UnknownParkingRaises ==
    (call.op = "get_parking" /\ call.parking \notin DOMAIN parking_db) =>
        call.status = "raise"

\* C13 as amended: get_parking on an id that is not registered returns None
\* and raises nothing.
C13_UnknownParkingIsNone ==
    (call.op = "get_parking" /\ call.parking \notin DOMAIN parking_db) =>
        (call.status = "return" /\ call.value = None)

\* C13 witness: a lookup of an unregistered id that returned, in a monitor
\* whose registered parking has per-class capacities.
C13_Witness ==
    /\ call.op = "get_parking" /\ call.parking = "p0"
    /\ call.status = "return"
    /\ parking_db["p1"].capacity_by_class # EmptyDict

\* C14: for every registered parking, get_parking_projections returns the
\* parking's current projections_by_class; it raises only when the parking
\* id does not exist.
C14_ProjectionsReturned ==
    (call.op = "get_parking_projections" /\ call.parking \in DOMAIN parking_db) =>
        /\ call.status = "return"
        /\ call.value = parking_db[call.parking].projections_by_class

----------------------------------------------------------------------------
(* Travel times                                                            *)

ClosestAsked == call.op = "get_closest_parkings"

Built == call.op = "compute_parking_travel_time"

\* The distance list of the parking asked for, empty when it has none
DistanceList ==
    IF call.parking \in DOMAIN static_parking_travel_time
    THEN static_parking_travel_time[call.parking] ELSE <<>>

Ascending(list) == \A i \in 1..(Len(list) - 1) : list[i][1] <= list[i + 1][1]

Min(a, b) == IF a < b THEN a ELSE b

\* C16: get_closest_parkings fails with the not-initialized error exactly
\* when compute_parking_travel_time has never been run; after any build,
\* also one that found no reachable pair of parkings, it returns a list.
C16_RaisesOnlyBeforeBuild ==
    ClosestAsked => (call.status = "raise" <=> ~history.built)

\* C17: after a build, get_closest_parkings(parking, n) returns for every
\* n >= 0 at most n entries, the first ones of the parking's distance list,
\* which ascends in cost; with n left out it returns the whole list.
C17_FirstEntries ==
    (ClosestAsked /\ history.built /\ call.status = "return") =>
        LET num == call.arg[1]
        IN  /\ Ascending(DistanceList)
            /\ num = NoNum => call.value = DistanceList
            /\ num # NoNum =>
                   /\ Len(call.value) <= num
                   /\ call.value = SubSeq(DistanceList, 1, Min(num, Len(DistanceList)))

\* The pairs of edges a build asked a route for, in order
Asked(log) == [i \in 1..Len(log) |-> <<log[i][1], log[i][2]>>]

\* C18: once findRoute has failed for a pair (origin edge, destination
\* edge) during a build, no later route query is issued for that pair,
\* neither later in the same build nor in a later build.
C18_NoQueryAfterFailure ==
    [][call'.op = "compute_parking_travel_time" =>
          LET log == call'.value
          IN  \A i \in 1..Len(log) :
                 /\ Asked(log)[i] \notin history.failed_routes
                 /\ \A k \in 1..(i - 1) :
                        log[k][3] = RouteFails => Asked(log)[k] # Asked(log)[i]]_vars

\* A build of all three parkings in which findRoute failed from eA to eB
\* for "p1" and was not asked again for "p2", after an earlier build in
\* which it had failed from eB to eA and which is not asked either.
C18_Witness ==
    /\ Built
    /\ DOMAIN parking_db = ParkingOrderSet
    /\ <<"eB", "eA">> \in history.failed_routes
    /\ \E i \in 1..Len(call.value) :
          /\ call.value[i] = <<"eA", "eB", RouteFails>>
          /\ \A k \in 1..Len(call.value) : k # i => Asked(call.value)[k] = <<"eA", "eA">>

\* C19: running compute_parking_travel_time twice with the same parkings
\* and the same answers of findRoute yields the same distance lists: the
\* second build discards the results of the first.
C19_SameBuildSameLists ==
    [][(Built /\ call'.op = "compute_parking_travel_time" /\ call'.arg = call.arg)
          => static_parking_travel_time' = static_parking_travel_time]_vars

\* A second build with the answers of the first, with distances from two
\* parkings, one of them with two entries
C19_Witness ==
    /\ Built
    /\ history.repeated
    /\ \E a, b \in DOMAIN static_parking_travel_time :
          a # b /\ Len(static_parking_travel_time[a]) = 2

----------------------------------------------------------------------------
(* Initialization                                                          *)

Initialized == call.op = "init"

\* The attributes of a parking the options can set
Attributes == {"total_capacity", "capacity_by_class", "subscriptions_by_class",
               "uncertainty"}

Assignments(pid, attr) ==
    SelectSeq(call.value.log[pid], LAMBDA entry : entry.key = attr)

Last(list) == list[Len(list)]

\* total_capacity of the parking when rule number `rule` is reached
CapacityAt(pid, rule) ==
    LET earlier == SelectSeq(Assignments(pid, "total_capacity"),
                             LAMBDA entry : entry.rule < rule)
    IN  IF earlier = <<>> THEN call.value.capacity[pid] ELSE Last(earlier).value

\* The generic rules whose condition is true for the parking and that set attr
Matching(pid, attr) ==
    {rule \in 1..Len(call.arg.generic_conf) :
        /\ parse_generic_condition(call.arg.generic_conf[rule].cond,
                                   [k \in {"total_capacity"} |-> CapacityAt(pid, rule)])
        /\ \E i \in 1..Len(call.arg.generic_conf[rule].set_to) :
              call.arg.generic_conf[rule].set_to[i].key = attr}

Max(S) == CHOOSE x \in S : \A y \in S : y <= x

AssignedBy(pid, rule, attr) ==
    Last(SelectSeq(Assignments(pid, attr), LAMBDA entry : entry.rule = rule)).value

\* The specific configuration of the parking names the attribute
Named(pid, attr) ==
    /\ pid \in DOMAIN call.arg.specific_conf
    /\ attr \in DOMAIN call.arg.specific_conf[pid]

Overridden(pid, attr) == Named(pid, attr) /\ attr \in SpecificAttributes

Override(pid, attr) ==
    IF attr = "uncertainty"
    THEN eval_uncertainty(call.arg.specific_conf[pid][attr], parking_db[pid])
    ELSE call.arg.specific_conf[pid][attr]

Default(pid, attr) ==
    CASE attr = "total_capacity" -> call.value.capacity[pid]
      [] attr = "uncertainty" -> DefaultUncertainty
      [] OTHER -> EmptyDict

\* The generic rules that assigned attr are those whose condition is true
RulesApplied(pid, attr) ==
    Matching(pid, attr) = {entry.rule : entry \in SeqToSet(Assignments(pid, attr))}

\* The value of the last matching generic rule, or else the default
GenericOrDefault(pid, attr) ==
    IF Matching(pid, attr) # {}
    THEN AssignedBy(pid, Max(Matching(pid, attr)), attr)
    ELSE Default(pid, attr)

\* C20: at initialization the value of an attribute of a parking is that of
\* the specific override if one names the attribute, otherwise the value
\* assigned by the last generic rule, in declaration order, whose condition
\* is true for the parking, otherwise the default.
C20_PrecedenceOfAnyAttribute ==
    Initialized =>
        \A pid \in DOMAIN parking_db, attr \in Attributes :
            /\ RulesApplied(pid, attr)
            /\ parking_db[pid][attr] =
                   IF Named(pid, attr) THEN Override(pid, attr)
                   ELSE GenericOrDefault(pid, attr)

\* C20, amended: the specific override decides only capacity_by_class,
\* subscriptions_by_class and uncertainty; any other attribute it names
\* keeps the value of the last matching generic rule, or else the default.
C20_Precedence ==
    Initialized =>
        \A pid \in DOMAIN parking_db, attr \in Attributes :
            /\ RulesApplied(pid, attr)
            /\ parking_db[pid][attr] =
                   IF Overridden(pid, attr) THEN Override(pid, attr)
                   ELSE GenericOrDefault(pid, attr)

\* "p1" has a specific uncertainty that differs from the one both generic
\* rules assign to it; for "p2" both rules match and assign different
\* values; for "p1" the capacity_by_class is left at its default.
C20_Witness ==
    /\ Initialized
    /\ Overridden("p1", "uncertainty")
    /\ Cardinality(Matching("p1", "uncertainty")) = 2
    /\ Cardinality(Matching("p2", "uncertainty")) = 2
    /\ AssignedBy("p1", 2, "uncertainty") # parking_db["p1"].uncertainty
    /\ AssignedBy("p2", 1, "uncertainty") # AssignedBy("p2", 2, "uncertainty")
    /\ parking_db["p2"].uncertainty # DefaultUncertainty
    /\ parking_db["p1"].capacity_by_class = EmptyDict

----------------------------------------------------------------------------
(* Tracking of the vehicles over the steps                                 *)

Stepped == call.op = "step"

Completed == Stepped /\ call.status = "return"

\* The ids of the parking areas of a list of stops, in order
StopIds(stops) == [i \in 1..Len(ParkingStops(stops)) |-> ParkingStops(stops)[i][1]]

\* projections_by_class of every parking
Projections(db) == [p \in DOMAIN db |-> db[p].projections_by_class]

\* occupancy_by_class of every parking
Occupancies(db) == [p \in DOMAIN db |-> db[p].occupancy_by_class]

\* C21: when the update of a tracked vehicle in a step carries parking
\* stops of the same number and with the same parking id at each position
\* as the stored list, the step changes no projections_by_class, appends
\* nothing to the history of the vehicle and leaves its stored stops alone.
C21_SameStopsNoChange ==
    [][call'.op = "step" =>
          \A i \in 1..Len(call'.arg.results) :
              LET vehicle == call'.arg.results[i][1]
              IN  (/\ vehicle \in DOMAIN vehicles_db
                   /\ StopIds(call'.arg.results[i][3]) = StopIds(vehicles_db[vehicle].stops))
                  => /\ Projections(parking_db') = Projections(parking_db)
                     /\ vehicles_db'[vehicle].history = vehicles_db[vehicle].history
                     /\ vehicles_db'[vehicle].stops = vehicles_db[vehicle].stops]_vars

\* A completed step in which the vehicle, stored with a stop at "p1",
\* reports the stop at "p1" as reached
C21_Witness ==
    /\ Completed
    /\ call.arg.event.kind = "stops"
    /\ call.arg.event.stops = <<ReachedStop("p1")>>
    /\ vehicles_db["v1"].stops = <<ParkingAreaStop("p1")>>
    /\ vehicles_db["v1"].history = <<>>

\* The vehicles whose stop the simulation ends in the step
Ended == {v \in Vehicles : sumo.parked[v] # None /\ sumo'.parked[v] = None}

\* C22: in every step N >= 2 the ending stops processed are exactly the
\* list fetched in step N-1, before step N fetches its own lists, and the
\* first step processes none: a vehicle of the list fetched in step N-1 is
\* removed from the occupancy before the vehicles of the starting list of
\* step N are added.
C22_StaleEndingListFirst ==
    [][(call'.op = "step" /\ call'.status = "return") =>
          /\ now = 0 => ending_stops = <<>>
          /\ SeqToSet(ending_stops') = Ended
          /\ \A p \in DOMAIN parking_db, c \in vclasses :
                 parking_db[p].occupancy_by_class[c] \ parking_db'[p].occupancy_by_class[c]
                     \subseteq SeqToSet(ending_stops)
          /\ \A v \in SeqToSet(ending_stops) :
                 LET area == get_parking_area_from_vehicle(vehicles_db', v)
                 IN  area \in DOMAIN parking_db =>
                        /\ v \in parking_db[area].occupancy_by_class[vehicles_db'[v].vClass]
                        /\ v \in parking_db'[area].occupancy_by_class[vehicles_db'[v].vClass]
                               <=> v \in SeqToSet(starting_stops')]_vars

\* A completed step that takes the vehicle out of "p1", which it left in
\* the step before, and puts it back as it starts a stop again
C22_Witness ==
    /\ Completed
    /\ starting_stops = <<"v1">>
    /\ sumo.parked["v1"] = "p1"
    /\ "v1" \in parking_db["p1"].occupancy_by_class["car"]
    /\ LET series == parking_db["p1"].occupancy_series
       IN  /\ Len(series) >= 2
           /\ series[Len(series) - 1] = <<0, now - 1>>
           /\ series[Len(series)] = <<1, now>>

\* C23: within one step the parts run in the order departure intake,
\* arrival intake, occupancy scan, ending stops, fetch of the lists,
\* starting stops, per-vehicle stop-list diff, validation: the diff runs
\* after the ending and the starting stops of the same step.
C23_StopsDiffAfterParking ==
    Completed =>
        call.flags = <<"departed", "arrived", "occupancy", "ending", "fetch",
                       "starting", "stops", "validation">>

\* C23, amended: the per-vehicle stop-list diff runs right after the
\* arrival intake, before the occupancy scan and the ending and starting
\* stops, which find the parking of a vehicle in the history the diff of
\* the same step has appended to.
C23_StopsDiffBeforeParking ==
    [][(call'.op = "step" /\ call'.status = "return") =>
          /\ call'.flags = <<"departed", "arrived", "stops", "occupancy", "ending",
                             "fetch", "starting", "validation">>
          /\ \A v \in SeqToSet(starting_stops') :
                 LET area == get_parking_area_from_vehicle(vehicles_db', v)
                 IN  area \in DOMAIN parking_db =>
                        v \in parking_db'[area].occupancy_by_class[vehicles_db'[v].vClass]]_vars

\* A completed step in which the stops of the vehicle change for the first
\* time and it starts a stop: it is counted in "p1", the first stop of the
\* list the step moved to the history
C23_Witness ==
    /\ Completed
    /\ call.arg.event.kind = "stops"
    /\ starting_stops = <<"v1">>
    /\ vehicles_db["v1"].history = << <<ParkingAreaStop("p1"), ParkingAreaStop("p2")>> >>
    /\ "v1" \in parking_db["p1"].occupancy_by_class["car"]

\* The vehicle is in no occupancy set of the database
Unparked(db, v) ==
    \A p \in DOMAIN db :
        \A c \in DOMAIN db[p].occupancy_by_class : v \notin db[p].occupancy_by_class[c]

C25_UnknownStartingVehicle ==
    [][(call'.op = "step" /\ "starting" \in SeqToSet(call'.flags)) =>
          \A v \in SeqToSet(starting_stops') :
              v \notin DOMAIN vehicles_db' =>
                  /\ v \in call'.arg.critical
                  /\ Unparked(parking_db', v)]_vars

\* Under only_parkings the vehicle departed without a stop at a parking
\* and was not registered; the simulation parks it all the same
C25_Witness ==
    /\ Stepped
    /\ only_parkings
    /\ starting_stops = <<"v1">>
    /\ "v1" \in sumo.departed
    /\ "v1" \notin DOMAIN vehicles_db
    /\ call.arg.critical = {"v1"}

\* C26: after every completed step a tracked vehicle is in the projections
\* of its class of a parking if and only if the parking is the place of a
\* stop of the stop list stored for the vehicle.
C26_ProjectionsAreStops ==
    Completed =>
        \A v \in DOMAIN vehicles_db, p \in DOMAIN parking_db :
            /\ v \in parking_db[p].projections_by_class[vehicles_db[v].vClass]
                   <=> p \in Places(vehicles_db[v].stops)
            /\ \A c \in vclasses \ {vehicles_db[v].vClass} :
                   v \notin parking_db[p].projections_by_class[c]

\* After two changes of its stops the vehicle, registered with stops at
\* "p1" and "p2", is projected to "p2" only
C26_Witness ==
    /\ Completed
    /\ "v1" \in DOMAIN vehicles_db
    /\ Len(vehicles_db["v1"].history) = 2
    /\ vehicles_db["v1"].history[1] = <<ParkingAreaStop("p1"), ParkingAreaStop("p2")>>
    /\ vehicles_db["v1"].stops = <<ParkingAreaStop("p2")>>
    /\ "v1" \in parking_db["p2"].projections_by_class["car"]
    /\ "v1" \notin parking_db["p1"].projections_by_class["car"]

\* The parkings that count the vehicle in an occupancy set
CountedIn(v) ==
    {p \in DOMAIN parking_db :
        \E c \in DOMAIN parking_db[p].occupancy_by_class :
            v \in parking_db[p].occupancy_by_class[c]}

Tracked(db) == [v \in DOMAIN db |-> [db[v] EXCEPT !.edge = "", !.passengers = <<>>]]

\* C28: with only_parkings on, a vehicle that departs in a step is
\* registered iff its class is neither bus nor rail and its plan has a stop
\* at a parking area; a vehicle that is skipped changes neither the
\* vehicles, nor the projections of any parking, nor the passengers.
C28_OnlyParkingsAtDeparture ==
    [][(call'.op = "step" /\ only_parkings /\ call'.arg.event.kind = "depart") =>
          LET vehicle == call'.arg.event.vehicle
              wanted == /\ getVehicleClass[vehicle] \notin {"bus", "rail"}
                        /\ ParkingStops(call'.arg.event.stops) # <<>>
          IN  /\ vehicle \in DOMAIN vehicles_db' <=> wanted
              /\ vehicle \in subscribed' <=> wanted
              /\ ~wanted =>
                     /\ Tracked(vehicles_db') = Tracked(vehicles_db)
                     /\ Projections(parking_db') = Projections(parking_db)
                     /\ passengers_db' = passengers_db]_vars

\* With only_parkings on, the car "v1" has departed with a passenger and
\* no stop at a parking area, and so has the bus "v2": both were skipped
C28_Witness ==
    /\ Stepped
    /\ only_parkings
    /\ sumo.departed = {"v1", "v2"}
    /\ vehicles_db = EmptyDict
    /\ getPersonIDList["v1"] # <<>>
    /\ passengers_db = {}

\* C29: no step removes a vehicle of the vehicles or a passenger of the
\* passengers; 'arrived' of a vehicle is unset exactly until the vehicle is
\* in an arrived list, and the step of its arrival writes nothing else of
\* its record but the step number into 'arrived'.
C29_TrackerOnlyGrows ==
    [][call'.op = "step" =>
          /\ DOMAIN vehicles_db \subseteq DOMAIN vehicles_db'
          /\ passengers_db \subseteq passengers_db'
          /\ \A v \in DOMAIN vehicles_db' :
                 vehicles_db'[v].arrived # NoStep <=> v \in sumo'.arrived
          /\ \A v \in DOMAIN vehicles_db :
                 IF v \in sumo'.arrived \ sumo.arrived
                 THEN Tracked(vehicles_db')[v]
                          = [Tracked(vehicles_db)[v] EXCEPT !.arrived = now']
                 ELSE vehicles_db'[v].arrived = vehicles_db[v].arrived]_vars

\* The vehicle "v1", registered with its passenger, has arrived in this step
C29_Witness ==
    /\ Stepped
    /\ call.arg.event = StepEvent("arrive", "v1", <<>>)
    /\ "v1" \in DOMAIN vehicles_db
    /\ vehicles_db["v1"].arrived = now
    /\ vehicles_db["v1"].departure < now
    /\ "u1" \in passengers_db

\* The stops a subscription result of the step reports for the vehicle
\* differ from the stored ones and none of them is at a parking area
EmptiedBy(results, db, v) ==
    \E i \in 1..Len(results) :
        /\ results[i][1] = v
        /\ ParkingStops(results[i][3]) = <<>>
        /\ db[v].stops # <<>>

\* C30: 'final_stop_arrival' of a vehicle is set at most once: by the
\* first step in which the changed stop list of the vehicle is empty, to the
\* number of that step, and no later step changes it, whatever becomes of
\* the stops.
C30_FinalStopArrivalOnce ==
    [][call'.op = "step" =>
          /\ \A v \in DOMAIN vehicles_db :
                 IF vehicles_db[v].final_stop_arrival # NoStep
                 THEN vehicles_db'[v].final_stop_arrival = vehicles_db[v].final_stop_arrival
                 ELSE IF EmptiedBy(call'.arg.results, vehicles_db, v)
                 THEN vehicles_db'[v].final_stop_arrival = now'
                 ELSE vehicles_db'[v].final_stop_arrival = NoStep
          /\ \A v \in DOMAIN vehicles_db' \ DOMAIN vehicles_db :
                 vehicles_db'[v].final_stop_arrival = NoStep]_vars

\* The stops of "v1" became empty, then not empty, and are empty again:
\* 'final_stop_arrival' is the step of the first time
C30_Witness ==
    /\ Stepped
    /\ "v1" \in DOMAIN vehicles_db
    /\ vehicles_db["v1"].stops = <<>>
    /\ Len(vehicles_db["v1"].history) = 3
    /\ vehicles_db["v1"].history[1] # <<>>
    /\ vehicles_db["v1"].history[2] = <<>>
    /\ vehicles_db["v1"].history[3] # <<>>
    /\ vehicles_db["v1"].final_stop_arrival = vehicles_db["v1"].departure + 1
    /\ now = vehicles_db["v1"].departure + 3

----------------------------------------------------------------------------
(* Reservations over a sequence of calls                                   *)

\* Every class of every parking holds no more reservations than it reserves
WithinReserved(db) ==
    \A p \in DOMAIN db : \A c \in DOMAIN db[p].subscriptions_by_class :
        Cardinality(db[p].subscriptions_by_class[c][2]) <= db[p].subscriptions_by_class[c][1]

\* The reserved count of every class of every parking
ReservedCounts(db) ==
    [p \in DOMAIN db |->
        [c \in DOMAIN db[p].subscriptions_by_class |-> db[p].subscriptions_by_class[c][1]]]

----------------------------------------------------------------------------
(* The samples of the occupancy                                            *)

\* C32 (its invariant): every parking has a non-empty occupancy_series whose
\* last sample has the value of total_occupancy and in which two
\* consecutive samples never have the same value.
C32_SeriesFollowsOccupancy ==
    \A p \in DOMAIN parking_db :
        LET series == parking_db[p].occupancy_series
        IN  /\ series # <<>>
            /\ series[Len(series)][1] = parking_db[p].total_occupancy
            /\ \A i \in 1..(Len(series) - 1) : series[i][1] # series[i + 1][1]

====
